---- MODULE Spec2Model ----
(***************************************************************************)
(* Model of the secure-intake client: the submission orchestrator          *)
(* (submitSecureIntake), the pending-submission store (sessionStorage),    *)
(* the sliding-window rate limiter and the capability cache.               *)
(*                                                                         *)
(* submitSecureIntake is an async function: one action of the model is one *)
(* synchronous run of it between two suspension points (await).            *)
(***************************************************************************)
EXTENDS Integers, Naturals, Sequences, FiniteSets, TLC

VARIABLES
    now,               \* Date.now(), in milliseconds
    sessionStorage,    \* storage key -> NoRecord or the PendingSubmission {id, ts}
    submitTimestamps,  \* ratelimit.ts: the module-level timeline
    cachedCapability,  \* capability.ts: the module-level cache (NoCapability = null)
    pqcModule,         \* hybrid-lazy.ts: TRUE once the strong-suite module is loaded
    sub,               \* per submission: position, locals and what it has done so far
    prior,             \* storage key -> how the last submission on that key ended
    quota,             \* the one rateLimit option of a deployment, and its attempts so far
    unit               \* the last direct call of a store or limiter function

vars == <<now, sessionStorage, submitTimestamps, cachedCapability, pqcModule, sub, prior,
          quota, unit>>

----------------------------------------------------------------------------
(* Bounds of the model *)

MaxTicks == 2            \* the clock stops after this many ticks
MaxRecorded == 2         \* recordSubmit is not modelled beyond this many entries
TickMs == 30000          \* one tick of the clock, in milliseconds
MaxProbes == 3           \* direct calls of checkCryptoCapability probe at most this often

(* Program constants *)

DEFAULT_WINDOW_MS == 60000
DEFAULT_MAX == 2
DEFAULT_TTL_MS == 300000
DEFAULT_MAX_PLAINTEXT == 32768
DEFAULT_MAX_ENVELOPE == 57344
DEFAULT_STORAGE_KEY == "loggie.intake.pending"
DEFAULT_VERSION == "loggie.intake.v1"
X25519_ONLY_SUITE == "x25519"
HYBRID_SUITE == "hybrid"

Undefined == 0 - 1       \* an option the caller left unset

Procs == {1, 2}          \* submissions that may be in flight
SeqProcs == {1}          \* the single cooperative caller of the sequential specification

----------------------------------------------------------------------------
(* Inputs *)

RawPayloads == {" A@B.c ", "a@b.c", "x@y.cc"}
StorageKeys == {DEFAULT_STORAGE_KEY, "other.pending"}
TtlChoices == {Undefined, 30000}
RateLimitChoices ==
    { [disabled |-> TRUE,  max |-> Undefined, windowMs |-> Undefined],   \* rateLimit: false
      [disabled |-> FALSE, max |-> Undefined, windowMs |-> Undefined],   \* rateLimit unset
      [disabled |-> FALSE, max |-> 1,         windowMs |-> 30000] }
MaxPlaintextChoices == {Undefined, 13}
MaxEnvelopeChoices == {Undefined, 300}
RequireKyberChoices == {"true", "false", "undefined"}
AttemptHybridChoices == {"true", "false", "undefined"}
Statuses == {200, 201, 202, 400, 500}
\* Response bodies {ok, id, status, error}; NoBody is what .catch(() => ({})) yields
NoBody == [ok |-> FALSE, id |-> "", status |-> "", error |-> ""]
ServerBodies(id) ==
    [ok : {TRUE}, id : {"server-" \o id}, status : {"created", "duplicate"}, error : {""}]
      \cup [ok : {FALSE}, id : {""}, status : {""}, error : {"", "invalid submission"}]
TransportErrors == {"Failed to fetch"}

----------------------------------------------------------------------------
(* Canonicalization and identifier *)

\* The caller-supplied config.canonicalize: trims and lower-cases the email.
canonicalize(payload) ==
    CASE payload = " A@B.c " -> "a@b.c"
      [] payload = "a@b.c"   -> "a@b.c"
      [] OTHER               -> payload

JSONstringify(canonicalized) == "{email:" \o canonicalized \o "}"

\* BLAKE3 of the serialized value, as hex: a collision-free function of the text.
generateRequestId(canonicalized) == "blake3(" \o JSONstringify(canonicalized) \o ")"

----------------------------------------------------------------------------
(* Text, character by character: normalize.ts, presets/pilot-access.ts, id.ts *)

\* A string of the program is a sequence of one-character strings here, so that
\* trimming, case folding, replacement and search are computed, not assumed.
\* Printable lists the characters 32..126 in code order ("grave" holds the place of
\* the grave accent, which no input uses).
Printable ==
    <<" ", "!", "\"", "#", "$", "%", "&", "'", "(", ")", "*", "+", ",", "-", ".", "/",
      "0", "1", "2", "3", "4", "5", "6", "7", "8", "9", ":", ";", "<", "=", ">", "?",
      "@", "A", "B", "C", "D", "E", "F", "G", "H", "I", "J", "K", "L", "M", "N", "O",
      "P", "Q", "R", "S", "T", "U", "V", "W", "X", "Y", "Z", "[", "\\", "]", "^", "_",
      "grave", "a", "b", "c", "d", "e", "f", "g", "h", "i", "j", "k", "l", "m", "n", "o",
      "p", "q", "r", "s", "t", "u", "v", "w", "x", "y", "z", "{", "|", "}", "~">>

\* the UTF-16 code unit (and the UTF-8 byte) of an ASCII character
CodeUnits ==
    [c \in {Printable[i] : i \in DOMAIN Printable} \cup {"\t", "\n", "\r"} |->
        CASE c = "\t" -> 9
          [] c = "\n" -> 10
          [] c = "\r" -> 13
          [] OTHER    -> 31 + (CHOOSE i \in DOMAIN Printable : Printable[i] = c)]

Whitespace == {" ", "\t", "\n", "\r"}    \* the white space and line terminators in use

RECURSIVE trimStart(_)
trimStart(s) == IF s # <<>> /\ Head(s) \in Whitespace THEN trimStart(Tail(s)) ELSE s

RECURSIVE trimEnd(_)
trimEnd(s) ==
    IF s # <<>> /\ s[Len(s)] \in Whitespace THEN trimEnd(SubSeq(s, 1, Len(s) - 1)) ELSE s

\* String.prototype.trim
trim(s) == trimEnd(trimStart(s))

\* String.prototype.toLowerCase on ASCII: A..Z are 32 code units below a..z
toLowerCase(s) ==
    [i \in DOMAIN s |->
        IF CodeUnits[s[i]] >= CodeUnits["A"] /\ CodeUnits[s[i]] <= CodeUnits["Z"]
        THEN Printable[CodeUnits[s[i]] + 32 - 31]
        ELSE s[i]]

\* s.replace(/\r\n/g, "\n"): a lone carriage return is left in place
RECURSIVE replaceCrlfOnly(_)
replaceCrlfOnly(s) ==
    IF s = <<>> THEN <<>>
    ELSE IF Head(s) = "\r" /\ Len(s) >= 2 /\ s[2] = "\n"
         THEN <<"\n">> \o replaceCrlfOnly(SubSeq(s, 3, Len(s)))
         ELSE <<Head(s)>> \o replaceCrlfOnly(Tail(s))

\* s.replace(/\r\n?/g, "\n"): leftmost match first, the optional \n taken greedily
RECURSIVE replaceLineEndings(_)
replaceLineEndings(s) ==
    IF s = <<>> THEN <<>>
    ELSE IF Head(s) = "\r"
         THEN IF Len(s) >= 2 /\ s[2] = "\n"
              THEN <<"\n">> \o replaceLineEndings(SubSeq(s, 3, Len(s)))
              ELSE <<"\n">> \o replaceLineEndings(Tail(s))
         ELSE <<Head(s)>> \o replaceLineEndings(Tail(s))

\* normalizeMultiline handling only the Windows ending
normalizeMultilineCrlfOnly(s) == replaceCrlfOnly(trim(s))

normalizeMultiline(s) == replaceLineEndings(trim(s))

\* normalizeEmail without the case folding
normalizeEmailKeepsCase(email) == trim(email)

normalizeEmail(email) == toLowerCase(trim(email))

\* the default comparison of Array.prototype.sort: strings by their code units
RECURSIVE StringLess(_, _)
StringLess(a, b) ==
    IF b = <<>> THEN FALSE
    ELSE IF a = <<>> THEN TRUE
    ELSE IF Head(a) = Head(b) THEN StringLess(Tail(a), Tail(b))
    ELSE CodeUnits[Head(a)] < CodeUnits[Head(b)]

RECURSIVE sort(_)
sort(arr) ==
    IF arr = <<>> THEN <<>>
    ELSE LET least == CHOOSE i \in DOMAIN arr : \A j \in DOMAIN arr : ~StringLess(arr[j], arr[i])
         IN  <<arr[least]>> \o sort(SubSeq(arr, 1, least - 1) \o SubSeq(arr, least + 1, Len(arr)))

\* normalizeStringArray returning the copy as it came
normalizeStringArrayUnsorted(arr) == arr

normalizeStringArray(arr) == sort(arr)

\* A canonical payload is an object: its own keys in insertion order, each with a
\* string or an array of strings.
StringValue(key, string) == [key |-> key, isArray |-> FALSE, string |-> string, items |-> <<>>]
ArrayValue(key, items) == [key |-> key, isArray |-> TRUE, string |-> <<>>, items |-> items]

KeyKind == <<"k", "i", "n", "d">>
KeyEmail == <<"e", "m", "a", "i", "l">>
KeyCompany == <<"c", "o", "m", "p", "a", "n", "y">>
KeySystem == <<"s", "y", "s", "t", "e", "m">>
KeyUseCase == <<"u", "s", "e", "C", "a", "s", "e">>
KeyTimeline == <<"t", "i", "m", "e", "l", "i", "n", "e">>
KeyCompliance == <<"c", "o", "m", "p", "l", "i", "a", "n", "c", "e">>

canonicalizePilotAccessPayload(data, kind) ==
    << StringValue(KeyKind, kind),
       StringValue(KeyEmail, normalizeEmail(data.email)),
       StringValue(KeyCompany, trim(data.company)),
       StringValue(KeySystem, normalizeMultiline(data.system)),
       StringValue(KeyUseCase, data.useCase),
       StringValue(KeyTimeline, data.timeline),
       ArrayValue(KeyCompliance, normalizeStringArray(data.compliance)) >>

\* JSON.stringify of a string: quoted, with the escapes of the characters in use
QuoteChar(c) ==
    CASE c = "\"" -> <<"\\", "\"">>
      [] c = "\\" -> <<"\\", "\\">>
      [] c = "\n" -> <<"\\", "n">>
      [] c = "\r" -> <<"\\", "r">>
      [] c = "\t" -> <<"\\", "t">>
      [] OTHER    -> <<c>>

RECURSIVE QuoteChars(_, _)
QuoteChars(s, i) == IF i > Len(s) THEN <<>> ELSE QuoteChar(s[i]) \o QuoteChars(s, i + 1)

Quote(s) == <<"\"">> \o QuoteChars(s, 1) \o <<"\"">>

RECURSIVE QuoteItems(_, _)
QuoteItems(items, i) ==
    IF i > Len(items) THEN <<>>
    ELSE (IF i > 1 THEN <<",">> ELSE <<>>) \o Quote(items[i]) \o QuoteItems(items, i + 1)

RECURSIVE StringifyEntries(_, _)
StringifyEntries(object, i) ==
    IF i > Len(object) THEN <<>>
    ELSE (IF i > 1 THEN <<",">> ELSE <<>>)
           \o Quote(object[i].key) \o <<":">>
           \o (IF object[i].isArray
               THEN <<"[">> \o QuoteItems(object[i].items, 1) \o <<"]">>
               ELSE Quote(object[i].string))
           \o StringifyEntries(object, i + 1)

\* JSON.stringify of a canonical payload: the entries in the object's own key order
JSONstringifyObject(canonicalized) == <<"{">> \o StringifyEntries(canonicalized, 1) \o <<"}">>

\* TextEncoder.encode: the UTF-8 bytes of an ASCII text
encode(json) == [i \in DOMAIN json |-> CodeUnits[json[i]]]

\* the bytes lo..hi of the input, each weighted by its position
RECURSIVE Absorb(_, _, _)
Absorb(data, lo, hi) ==
    IF lo > hi THEN 0
    ELSE IF lo = hi THEN ((data[lo] + 1) * (lo * lo + 3 * lo + 1)) % 8191
    ELSE LET mid == (lo + hi) \div 2
         IN  (Absorb(data, lo, mid) + Absorb(data, mid + 1, hi)) % 8191

\* BLAKE3 is computed by a library outside the repository. This stands for it: 32
\* bytes that depend on the bytes hashed and on nothing else.
blake3(data) ==
    LET h == Absorb(data, 1, Len(data)) + Len(data)
    IN  [i \in 1..32 |-> ((h + i) * (h \div i + i)) % 256]

HexDigits == <<"0", "1", "2", "3", "4", "5", "6", "7", "8", "9", "a", "b", "c", "d", "e", "f">>

\* Number.prototype.toString(16) of a byte
toString16(b) ==
    IF b < 16 THEN <<HexDigits[b + 1]>> ELSE <<HexDigits[(b \div 16) + 1], HexDigits[(b % 16) + 1]>>

\* String.prototype.padStart(2, "0")
padStart2(s) == IF Len(s) < 2 THEN <<"0">> \o s ELSE s

RECURSIVE JoinHex(_, _, _)
JoinHex(bytes, i, unpadded) ==
    IF i > Len(bytes) THEN <<>>
    ELSE (IF unpadded THEN toString16(bytes[i]) ELSE padStart2(toString16(bytes[i])))
           \o JoinHex(bytes, i + 1, unpadded)

\* bytesToHex without the padding: a byte below 16 gives one digit
bytesToHexUnpadded(bytes) == JoinHex(bytes, 1, TRUE)

bytesToHex(bytes) == JoinHex(bytes, 1, FALSE)

\* generateRequestId salting the hash with the time of the call
generateRequestIdSalted(canonicalized) ==
    bytesToHex(blake3(encode(JSONstringifyObject(canonicalized)) \o <<now \div 1000>>))

\* generateRequestId, character by character
generateRequestIdHex(canonicalized) == bytesToHex(blake3(encode(JSONstringifyObject(canonicalized))))

\* String.prototype.includes
includes(s, hint) ==
    \E i \in 1..(Len(s) - Len(hint) + 1) : SubSeq(s, i, i + Len(hint) - 1) = hint

\* classifyDowngradeReason: the hints searched for, in the lower-cased message
HintCsp == <<"c", "s", "p">>
HintWasm == <<"w", "a", "s", "m">>
HintWebAssembly == <<"w", "e", "b", "a", "s", "s", "e", "m", "b", "l", "y">>
HintFailedToLoad == <<"f", "a", "i", "l", "e", "d", " ", "t", "o", " ", "l", "o", "a", "d">>
HintModule == <<"m", "o", "d", "u", "l", "e">>
HintImport == <<"i", "m", "p", "o", "r", "t">>
HintUnavailable == <<"u", "n", "a", "v", "a", "i", "l", "a", "b", "l", "e">>
HintNotAvailable == <<"n", "o", "t", " ", "a", "v", "a", "i", "l", "a", "b", "l", "e">>
HintEncrypt == <<"e", "n", "c", "r", "y", "p", "t">>

\* classifyDowngradeReason testing for unavailability before the load hints
classifyDowngradeReasonUnavailableFirst(msg) ==
    LET lower == toLowerCase(msg)
    IN  IF includes(lower, HintCsp) \/ includes(lower, HintWasm) \/ includes(lower, HintWebAssembly)
        THEN "wasm_blocked"
        ELSE IF includes(lower, HintUnavailable) \/ includes(lower, HintNotAvailable)
        THEN "kyber_unavailable"
        ELSE IF includes(lower, HintFailedToLoad) \/ includes(lower, HintModule)
                  \/ includes(lower, HintImport)
        THEN "module_load_failed"
        ELSE IF includes(lower, HintEncrypt)
        THEN "encrypt_failed"
        ELSE "unknown"

classifyDowngradeReason(msg) ==
    LET lower == toLowerCase(msg)
    IN  IF includes(lower, HintCsp) \/ includes(lower, HintWasm) \/ includes(lower, HintWebAssembly)
        THEN "wasm_blocked"
        ELSE IF includes(lower, HintFailedToLoad) \/ includes(lower, HintModule)
                  \/ includes(lower, HintImport)
        THEN "module_load_failed"
        ELSE IF includes(lower, HintUnavailable) \/ includes(lower, HintNotAvailable)
        THEN "kyber_unavailable"
        ELSE IF includes(lower, HintEncrypt)
        THEN "encrypt_failed"
        ELSE "unknown"

\* Failure messages: the one tryHybridEncryptLazy throws, and one or two phrases
MsgHybridUnavailable ==
    <<"H", "y", "b", "r", "i", "d", " ", "e", "n", "c", "r", "y", "p", "t", "i", "o", "n",
      " ", "u", "n", "a", "v", "a", "i", "l", "a", "b", "l", "e", ":", " ", "p", "q",
      "c", "-", "s", "h", "a", "r", "e", "d", " ", "m", "o", "d", "u", "l", "e", " ",
      "f", "a", "i", "l", "e", "d", " ", "t", "o", " ", "l", "o", "a", "d", " ", "(",
      "W", "A", "S", "M", " ", "b", "l", "o", "c", "k", "e", "d", " ", "b", "y", " ",
      "C", "S", "P", "?", ")">>
Phrases ==
    {<<"C", "S", "P">>,
     <<"w", "a", "s", "m">>,
     <<"W", "e", "b", "A", "s", "s", "e", "m", "b", "l", "y">>,
     <<"F", "a", "i", "l", "e", "d", " ", "t", "o", " ", "l", "o", "a", "d">>,
     <<"M", "o", "d", "u", "l", "e">>,
     <<"i", "m", "p", "o", "r", "t">>,
     <<"u", "n", "a", "v", "a", "i", "l", "a", "b", "l", "e">>,
     <<"N", "o", "t", " ", "A", "v", "a", "i", "l", "a", "b", "l", "e">>,
     <<"e", "n", "c", "r", "y", "p", "t">>,
     <<"a", "v", "a", "i", "l", "a", "b", "l", "e">>,
     <<"b", "o", "o", "m">>}
FailureMessages ==
    {<<>>, MsgHybridUnavailable}
      \cup Phrases
      \cup {first \o <<" ">> \o second : first \in Phrases, second \in Phrases}

\* Form payloads of the pilot-access preset (RequestFormData)
PilotAccessKinds == {<<"r", "e", "q", "u", "e", "s", "t", "_", "p", "i", "l", "o", "t", "_",
                      "a", "c", "c", "e", "s", "s">>}
EmailInputs == {<<"a", "@", "B">>, <<" ", "A", "@", "b", "\t">>, <<"c", "@", "b">>}
LineBreaks == {<<"\n">>, <<"\r">>, <<"\r", "\n">>}
LineGaps == {<<>>} \cup LineBreaks \cup {<<"\n", "\n">>, <<"\n", "\r">>, <<"\r", "\r">>}
SystemInputs ==
    {<<"a">> \o gap \o <<"b">> : gap \in LineGaps}
      \cup {<<"a">> \o first \o <<"b">> \o second \o <<"c">> : first \in LineBreaks, second \in LineBreaks}
      \cup {<<"a", "\r", "\n", "b", "\n">>, <<"a", "\n", "b", "\r", "\n">>}
Soc2 == <<"s", "o", "c", "2">>
Gdpr == <<"g", "d", "p", "r">>
Hipaa == <<"H", "I", "P", "A", "A">>
ComplianceInputs == {<<Soc2, Gdpr, Hipaa>>, <<Hipaa, Soc2, Gdpr>>}
RequestForms ==
    [email : EmailInputs, company : {<<" ", "A", "c">>}, system : SystemInputs,
     useCase : {<<"a", "i">>}, timeline : {<<"q", "2">>}, compliance : ComplianceInputs]
NoForm == [email |-> <<>>, company |-> <<>>, system |-> <<>>, useCase |-> <<>>,
           timeline |-> <<>>, compliance |-> <<>>]

----------------------------------------------------------------------------
(* Pending store: pending.ts *)

NoRecord == [id |-> "", ts |-> Undefined]

\* getPendingId with the expiry test written >=: a record dies one instant early
getPendingIdExpiresEarly(store, storageKey, ttlMs, readOk) ==
    IF ~readOk THEN "null"
    ELSE IF store[storageKey] = [id |-> "", ts |-> Undefined] THEN "null"
    ELSE IF now - store[storageKey].ts >= ttlMs THEN "null"
    ELSE store[storageKey].id

\* getPendingId that answers from the record even when getItem throws
getPendingIdUncaught(store, storageKey, ttlMs, readOk) ==
    IF store[storageKey] = [id |-> "", ts |-> Undefined] THEN "null"
    ELSE IF now - store[storageKey].ts > ttlMs THEN "null"
    ELSE store[storageKey].id

\* getPendingId: the identifier read (NoPending for null).
\* readOk = FALSE: sessionStorage.getItem throws, the catch returns null.
NoPending == "null"
getPendingId(store, storageKey, ttlMs, readOk) ==
    IF ~readOk THEN NoPending
    ELSE IF store[storageKey] = NoRecord THEN NoPending
    ELSE IF now - store[storageKey].ts > ttlMs THEN NoPending
    ELSE store[storageKey].id

\* getPendingId that returns null for an expired record without removing it
getPendingIdStoreKeepsExpired(store, storageKey, ttlMs, readOk, removeOk) == store

\* getPendingId: the store it leaves (an expired record is removed).
getPendingIdStore(store, storageKey, ttlMs, readOk, removeOk) ==
    IF readOk /\ store[storageKey] # NoRecord /\ now - store[storageKey].ts > ttlMs /\ removeOk
    THEN [store EXCEPT ![storageKey] = NoRecord]
    ELSE store

\* setPendingId that leaves a record already stored under the key
setPendingIdKeepsFirst(store, id, storageKey, writeOk) ==
    IF writeOk /\ store[storageKey] = [id |-> "", ts |-> Undefined]
    THEN [store EXCEPT ![storageKey] = [id |-> id, ts |-> now]]
    ELSE store

\* setPendingId that never reaches the storage
setPendingIdDropped(store, id, storageKey, writeOk) == store

\* setPendingId: unconditional overwrite; a throwing setItem is swallowed.
setPendingId(store, id, storageKey, writeOk) ==
    IF writeOk THEN [store EXCEPT ![storageKey] = [id |-> id, ts |-> now]] ELSE store

\* clearPendingSubmission that removes nothing
clearPendingSubmissionSkipped(store, storageKey, removeOk) == store

\* clearPendingSubmission: a throwing removeItem is swallowed.
clearPendingSubmission(store, storageKey, removeOk) ==
    IF removeOk THEN [store EXCEPT ![storageKey] = NoRecord] ELSE store

----------------------------------------------------------------------------
(* Rate limiter: ratelimit.ts *)

RECURSIVE PruneWindowInclusive(_, _)
\* the pruning loop with <= : an entry exactly at the cutoff is dropped too
PruneWindowInclusive(ts, cutoff) ==
    IF Len(ts) > 0 /\ Head(ts) <= cutoff THEN PruneWindowInclusive(Tail(ts), cutoff) ELSE ts

RECURSIVE PruneWindow(_, _)
\* the while loop of checkRateLimit: shift() while the head is older than the cutoff
PruneWindow(ts, cutoff) ==
    IF Len(ts) > 0 /\ Head(ts) < cutoff THEN PruneWindow(Tail(ts), cutoff) ELSE ts

WindowMsOf(config) == IF config.windowMs = Undefined THEN DEFAULT_WINDOW_MS ELSE config.windowMs
MaxOf(config) == IF config.max = Undefined THEN DEFAULT_MAX ELSE config.max

\* checkRateLimit that prunes before it looks at isRetry
checkRateLimitTimelinePrunesFirst(config, isRetry, ts) ==
    IF config.disabled THEN ts
    ELSE PruneWindow(ts, now - WindowMsOf(config))

\* checkRateLimit: the timeline it leaves
checkRateLimitTimeline(config, isRetry, ts) ==
    IF config.disabled THEN ts
    ELSE IF isRetry THEN ts
    ELSE PruneWindow(ts, now - WindowMsOf(config))

\* checkRateLimit that admits while the window holds max entries (<= for <)
checkRateLimitOffByOne(config, isRetry, ts) ==
    IF config.disabled THEN TRUE
    ELSE IF isRetry THEN TRUE
    ELSE Len(PruneWindow(ts, now - WindowMsOf(config))) <= MaxOf(config)

\* checkRateLimit: its result
checkRateLimit(config, isRetry, ts) ==
    IF config.disabled THEN TRUE
    ELSE IF isRetry THEN TRUE
    ELSE Len(PruneWindow(ts, now - WindowMsOf(config))) < MaxOf(config)

\* recordSubmit that pushes the timestamp twice
recordSubmitTwice(ts) == Append(Append(ts, now), now)

recordSubmit(ts) == Append(ts, now)

----------------------------------------------------------------------------
(* Capability detector: capability.ts *)

NoCapability == [available |-> FALSE, webCrypto |-> FALSE, kyber |-> FALSE, error |-> "null"]

\* the record checkCryptoCapability builds from its two probes
ProbeCapability(webCrypto, kyber) ==
    [available |-> webCrypto,
     webCrypto |-> webCrypto,
     kyber     |-> kyber,
     error     |-> IF ~webCrypto THEN "Missing: WebCrypto"
                   ELSE IF ~kyber THEN "PQC unavailable (WASM blocked or unsupported)"
                   ELSE ""]

\* the cache test that does not look at force
UseCachedIgnoringForce(cache, force) == cache # NoCapability

\* line 20: if (cachedCapability && !force) return cachedCapability
UseCached(cache, force) == cache # NoCapability /\ ~force

\* setCachedKyberStatus that leaves the cache as it finds it
setCachedKyberStatusDropped(cap, kyber) == cap

\* setCachedKyberStatus(true): the promotion made after a successful strong seal
setCachedKyberStatus(cap, kyber) ==
    IF cap = NoCapability THEN cap
    ELSE [cap EXCEPT !.kyber = kyber,
                     !.error = IF kyber /\ cap.webCrypto THEN "" ELSE cap.error]

----------------------------------------------------------------------------
(* Envelope: encryptX25519Only and the strong-suite module's hybridEncrypt *)

B64Len(n) == 4 * ((n + 2) \div 3)                \* btoa: 4 characters per 3 bytes
SecretboxLen(n) == n + 16                        \* nacl.secretbox: the Poly1305 tag

\* Byte arrays are modelled by their length, and the text made of one by a text of
\* the length the encoding gives it.
RECURSIVE Text(_, _)
Text(ch, n) == IF n = 0 THEN "" ELSE ch \o Text(ch, n - 1)
b64(n) == Text("A", B64Len(n))
toHex(n) == Text("0", 2 * n)

rand24 == 24                                     \* a 24-byte nonce
rand32 == 32                                     \* a 32-byte key
x25519Epk == toHex(32)                           \* toHex(ephKp.publicKey)
NonceText == b64(rand24)
WrappedKeyText == b64(SecretboxLen(rand32))      \* b64(secretboxRaw(kek, CK, wrapNonce))

\* no envelope yet; the fields v, aead and meta, the same in every envelope, are left out
NoEnvelope == [suite |-> "none", x25519Epk |-> "",
               x25519Wrap |-> [nonce |-> "", wrapped |-> ""],
               kyberKemCt |-> "", kyberWrap |-> [nonce |-> "", wrapped |-> ""],
               contentNonce |-> "", ciphertext |-> ""]

\* encryptX25519Only that writes null for the Kyber fields it does not use
encryptX25519OnlyNullKyber(plaintextLen) ==
    [suite |-> "x25519", x25519Epk |-> x25519Epk,
     x25519Wrap |-> [nonce |-> NonceText, wrapped |-> WrappedKeyText],
     kyberKemCt |-> "null", kyberWrap |-> [nonce |-> "null", wrapped |-> "null"],
     contentNonce |-> NonceText, ciphertext |-> b64(SecretboxLen(plaintextLen))]

encryptX25519Only(plaintextLen) ==
    [suite |-> X25519_ONLY_SUITE, x25519Epk |-> x25519Epk,
     x25519Wrap |-> [nonce |-> NonceText, wrapped |-> WrappedKeyText],
     kyberKemCt |-> "", kyberWrap |-> [nonce |-> "", wrapped |-> ""],
     contentNonce |-> NonceText, ciphertext |-> b64(SecretboxLen(plaintextLen))]

\* the strong-suite module's hybridEncrypt; its KEM ciphertext stands for itself
hybridEncrypt(plaintextLen) ==
    [suite |-> HYBRID_SUITE, x25519Epk |-> x25519Epk,
     x25519Wrap |-> [nonce |-> NonceText, wrapped |-> WrappedKeyText],
     kyberKemCt |-> "kyber-kem-ciphertext",
     kyberWrap |-> [nonce |-> NonceText, wrapped |-> WrappedKeyText],
     contentNonce |-> NonceText, ciphertext |-> b64(SecretboxLen(plaintextLen))]

\* JSON.stringify(encrypted).length, counting the fields whose size varies
EncryptedJsonLen(encrypted) ==
    Len(encrypted.suite) + Len(encrypted.x25519Epk)
      + Len(encrypted.x25519Wrap.nonce) + Len(encrypted.x25519Wrap.wrapped)
      + Len(encrypted.kyberKemCt)
      + Len(encrypted.kyberWrap.nonce) + Len(encrypted.kyberWrap.wrapped)
      + Len(encrypted.contentNonce) + Len(encrypted.ciphertext)

NoOuter == [v |-> "", id |-> "", pqcUsed |-> FALSE, encrypted |-> NoEnvelope]

\* envelopeJson.length
EnvelopeJsonLen(envelope) ==
    Len(envelope.v) + Len(envelope.id) + EncryptedJsonLen(envelope.encrypted)

----------------------------------------------------------------------------
(* SubmitResult and the messages of submitSecureIntake *)

NoResult == [ok |-> FALSE, id |-> "", status |-> "", error |-> "pending"]
Success(id, status) == [ok |-> TRUE, id |-> id, status |-> status, error |-> ""]
Failure(error) == [ok |-> FALSE, id |-> "", status |-> "", error |-> error]

MsgRateLimited == "Too many submissions. Please wait a moment before trying again."
\* the capability message without crypto.error
MsgCapabilityGeneric(error) ==
    "Your browser cannot securely submit this form. Please use a modern browser (Chrome, Firefox, Safari, Edge)."

MsgCapability(error) ==
    "Your browser cannot securely submit this form. " \o error
      \o ". Please use a modern browser (Chrome, Firefox, Safari, Edge)."
MsgPlaintextTooLarge(len) ==
    "Submission too large (" \o ToString((len + 512) \div 1024) \o "KB). Please shorten your responses."
MsgStrict ==
    "Post-quantum encryption unavailable in this environment (WASM blocked by CSP or unsupported browser). Cannot submit in strict hybrid mode."
MsgEnvelopeTooLarge == "Encrypted submission too large. Please shorten your responses."
MsgUnknown == "Unknown error"
MsgRequestError(status) == "Request error: " \o ToString(status)
MsgServerError(status) == "Server error: " \o ToString(status) \o ". Please try again."
MsgInvalidKey == "bad public key size"
MsgCanonicalize == "canonicalize failed"
MsgCallback == "onDowngrade failed"
MsgBadJson == "Unexpected token in JSON"
MsgCapabilityThrew == "capability check failed"

----------------------------------------------------------------------------
(* The DowngradeEvent: types.ts, submit.ts lines 138-151 *)

\* fields: the properties the object has; a property that is not among them has no
\* value ("" or <<>> here)
NoEvent ==
    [fields |-> {}, event |-> "", reason |-> "", suite |-> "", pqcUsed |-> FALSE,
     requireKyber |-> FALSE, userAgent |-> "", cspHint |-> "", rawError |-> <<>>]

MsgCspHint == "WASM compilation likely blocked by Content-Security-Policy"

\* the event with the raw message attached whatever debugDowngrade is
DowngradeEventAlwaysRaw(rawMsg, debugDowngrade) ==
    LET reason == classifyDowngradeReason(rawMsg)
    IN  [fields |-> {"event", "reason", "suite", "pqcUsed", "requireKyber", "userAgent",
                     "cspHint", "rawError"},
         event |-> "omnituum.crypto.downgrade",
         reason |-> reason,
         suite |-> X25519_ONLY_SUITE,
         pqcUsed |-> FALSE,
         requireKyber |-> FALSE,
         userAgent |-> "navigator.userAgent",
         cspHint |-> IF reason = "wasm_blocked" THEN MsgCspHint ELSE "undefined",
         rawError |-> rawMsg]

\* lines 139-151: debugDowngrade is the option as passed ("true", "false", "undefined")
DowngradeEvent(rawMsg, debugDowngrade) ==
    LET reason == classifyDowngradeReason(rawMsg)
    IN  [fields |-> {"event", "reason", "suite", "pqcUsed", "requireKyber", "userAgent",
                     "cspHint"}
                      \cup (IF debugDowngrade = "true" THEN {"rawError"} ELSE {}),
         event |-> "omnituum.crypto.downgrade",
         reason |-> reason,
         suite |-> X25519_ONLY_SUITE,
         pqcUsed |-> FALSE,
         requireKyber |-> FALSE,
         userAgent |-> "navigator.userAgent",
         cspHint |-> IF reason = "wasm_blocked" THEN MsgCspHint ELSE "undefined",
         rawError |-> IF debugDowngrade = "true" THEN rawMsg ELSE <<>>]

----------------------------------------------------------------------------
(* One submission: its position, its locals, and what it has done so far *)

NoPrior == [id |-> "", ts |-> Undefined]

IdleSub ==
    [pc |-> "idle", payload |-> "", id |-> "", storageKey |-> "", isRetry |-> FALSE,
     capability |-> NoCapability, requireKyber |-> FALSE, attemptHybrid |-> FALSE,
     pqcUsed |-> FALSE, encrypted |-> NoEnvelope, envelope |-> NoOuter,
     status |-> 0, result |-> NoResult,
     \* history of this submission
     admission |-> "none",      \* checkRateLimit: none / admitted / denied
     available |-> "none",      \* crypto.available: none / yes / no / threw
     hybrid |-> "none",         \* tryHybridEncryptLazy: none / called / ok / failed
     classical |-> "none",      \* encryptX25519Only: none / ok / failed
     downgrades |-> 0,          \* DowngradeEvents emitted
     callbackThrew |-> FALSE,
     pendingSets |-> 0,         \* calls of setPendingId
     pendingStored |-> FALSE,   \* the write reached the storage
     pendingTs |-> Undefined,   \* Date.now() at the call of setPendingId
     fetches |-> 0,             \* calls of fetch
     outcome |-> "none",        \* none / status / thrown: how fetch settled
     body |-> NoBody,           \* the parsed response body
     ttlMs |-> 0, windowMs |-> 0,   \* on a rate-limit denial: the TTL and window it used
     clears |-> 0,              \* calls of clearPendingSubmission by the orchestrator
     cleared |-> FALSE,         \* the last such call reached the storage
     recorded |-> 0,            \* calls of recordSubmit
     retryExpected |-> FALSE,   \* the last submission on this key ended retryable (see prior)
     honeypot |-> FALSE,        \* opts.honeypot was set
     canonicalized |-> 0,       \* calls of config.canonicalize
     readFailed |-> FALSE,      \* sessionStorage.getItem threw (kept when quota is tracked)
     \* the ceilings the two size guards used (kept when no quota is tracked)
     maxPlaintext |-> 0,
     maxEnvelope |-> 0,
     \* the catch of a failed strong seal: the message caught and the DowngradeEvent
     \* handed to onDowngrade (both until the classical seal settles: the core keeps
     \* neither), and whether config.debugDowngrade was set
     rawMsg |-> <<>>,
     downgradeEvent |-> NoEvent,
     debugDowngrade |-> FALSE]

Done(s, result) == [s EXCEPT !.pc = "done", !.result = result]

TypeOK ==
    /\ now \in Nat
    /\ \A p \in Procs :
         sub[p].pc \in {"idle", "capability", "hybrid", "classical", "fetch", "json", "errjson", "done"}

\* quota: no deployment-wide option (each submission passes its own), nothing counted.
\* n: the non-retry submissions that reached the rate-limit check so far (counted up
\* to max + 1)
NoQuota == [limit |-> [disabled |-> TRUE, max |-> Undefined, windowMs |-> Undefined],
            n |-> 0]

\* a deployment-wide rateLimit option is in force (the quota specification)
QuotaTracked == ~quota.limit.disabled

\* unit: no direct call yet. expect[k] is what the calls so far make of key k: the last
\* identifier the storage accepted, when, whether it is still there (live), and whether
\* every storage operation on k since that write went through (clean)
NoExpect == [id |-> "", ts |-> Undefined, live |-> FALSE, clean |-> TRUE]
\* force, probed, returned: a direct call of checkCryptoCapability; probes: the probes
\* such calls have run so far
\* data, kind, canonicalized, requestId: a direct call of generateId, at the time at;
\* again: whether the call before it was one on an equal canonical value ("no"), and
\* if so whether the clock has moved in between ("later") or not ("same")
\* msg, reason: a direct call of classifyDowngradeReason
NoUnit ==
    [seq |-> 0, op |-> "none", key |-> "", id |-> "", ttlMs |-> 0,
     config |-> NoQuota.limit, isRetry |-> FALSE, ok |-> TRUE,
     admit |-> FALSE, result |-> "", expect |-> [k \in StorageKeys |-> NoExpect],
     force |-> FALSE, probed |-> FALSE, returned |-> NoCapability, probes |-> 0,
     data |-> NoForm, kind |-> <<>>, canonicalized |-> <<>>, requestId |-> <<>>,
     at |-> 0, again |-> "no", msg |-> <<>>, reason |-> ""]

InitWith(q) ==
    /\ now = 0
    /\ sessionStorage = [k \in StorageKeys |-> NoRecord]
    /\ submitTimestamps = <<>>
    /\ cachedCapability = NoCapability
    /\ pqcModule = FALSE
    /\ sub = [p \in Procs |-> IdleSub]
    /\ prior = [k \in StorageKeys |-> NoPrior]
    /\ quota = q
    /\ unit = NoUnit

Init == InitWith(NoQuota)

\* the honeypot check passed over
HoneypotIgnored(value) == FALSE

\* line 55: if (opts.honeypot), the truthiness of a string
Honeypot(value) == value # ""

\* What a failed hybridEncrypt of the strong-suite module throws (the module is
\* outside the repository): two messages of one classification and one of another
SealErrors ==
    {<<"w", "a", "s", "m", " ", "t", "r", "a", "p">>,
     <<"K", "y", "b", "e", "r", " ", "e", "n", "c", "r", "y", "p", "t", " ", "f", "a", "i", "l", "e", "d">>}

\* The inputs of a submission: what the caller passes and what the collaborators
\* answer. input is a record of the sets these are drawn from.
AllInputs ==
    [payloads |-> RawPayloads, honeypots |-> {"", "bot"}, canonicalizeThrows |-> BOOLEAN,
     ttls |-> TtlChoices, storageOk |-> BOOLEAN, webCrypto |-> BOOLEAN,
     requireKyber |-> RequireKyberChoices, attemptHybrid |-> AttemptHybridChoices,
     maxPlaintext |-> MaxPlaintextChoices, maxEnvelope |-> MaxEnvelopeChoices,
     capabilityThrows |-> {FALSE},
     keyOk |-> BOOLEAN, loadOk |-> BOOLEAN, sealOk |-> BOOLEAN,
     sealErrors |-> {<<"w", "a", "s", "m", " ", "t", "r", "a", "p">>},
     callbackThrows |-> BOOLEAN, debugDowngrade |-> {"undefined"},
     transportErrors |-> TransportErrors, statuses |-> Statuses,
     badJson |-> BOOLEAN, bodyOk |-> BOOLEAN]

----------------------------------------------------------------------------
\* lines 53-86: from the call to the first suspension (await checkCryptoCapability()).
\* limits: the rateLimit options the caller may pass; track: keep the observers of
\* the quota specification (quota.n, readFailed)
BeginWith(p, keys, limits, track, input) ==
    /\ sub[p].pc = "idle"
    /\ \E payload \in input.payloads, honeypot \in input.honeypots,
          throws \in input.canonicalizeThrows,
          key \in keys, ttl \in input.ttls, rateLimit \in limits,
          readOk \in input.storageOk, removeOk \in input.storageOk :
         LET s0 == [IdleSub EXCEPT !.payload = payload, !.honeypot = honeypot # ""]
         IN
         IF Honeypot(honeypot) THEN
             /\ sub' = [sub EXCEPT ![p] = Done(s0, Success("", "created"))]
             /\ UNCHANGED <<sessionStorage, submitTimestamps, prior, quota>>
         ELSE IF throws THEN
             \* config.canonicalize throws: the catch of line 212
             /\ sub' = [sub EXCEPT ![p] = Done([s0 EXCEPT !.canonicalized = 1],
                                                Failure(MsgCanonicalize))]
             /\ UNCHANGED <<sessionStorage, submitTimestamps, prior, quota>>
         ELSE
             LET canonicalized == canonicalize(payload)
                 id == generateRequestId(canonicalized)
                 pendingTtlMs == IF ttl = Undefined THEN DEFAULT_TTL_MS ELSE ttl
                 pendingId == getPendingId(sessionStorage, key, pendingTtlMs, readOk)
                 store1 == getPendingIdStore(sessionStorage, key, pendingTtlMs, readOk, removeOk)
                 isRetry == pendingId = id
                 admit == checkRateLimit(rateLimit, isRetry, submitTimestamps)
                 counted == track /\ ~isRetry /\ quota.n <= MaxOf(quota.limit)
                 s1 == [s0 EXCEPT !.id = id, !.storageKey = key, !.isRetry = isRetry,
                                  !.canonicalized = 1,
                                  !.readFailed = track /\ ~readOk,
                                  !.admission = IF admit THEN "admitted" ELSE "denied",
                                  !.retryExpected = /\ prior[key].id = id
                                                    /\ now - prior[key].ts <= pendingTtlMs
                                                    /\ readOk]
             IN
             /\ sessionStorage' = store1
             /\ submitTimestamps' = checkRateLimitTimeline(rateLimit, isRetry, submitTimestamps)
             /\ prior' = [prior EXCEPT ![key] = NoPrior]
             /\ quota' = IF counted THEN [quota EXCEPT !.n = @ + 1] ELSE quota
             /\ sub' = [sub EXCEPT ![p] =
                          IF admit THEN [s1 EXCEPT !.pc = "capability",
                                                   !.capability = cachedCapability]
                          ELSE Done([s1 EXCEPT !.ttlMs = pendingTtlMs,
                                               !.windowMs = WindowMsOf(rateLimit)],
                                    Failure(MsgRateLimited))]
    /\ UNCHANGED <<now, cachedCapability, pqcModule, unit>>

\* a submission whose caller may pass any rateLimit option
Begin(p, keys) == BeginWith(p, keys, RateLimitChoices, FALSE, AllInputs)

\* the plaintext taken from the payload as passed, not from its canonical value
PlaintextLenOfRawPayload(s) == Len(JSONstringify(s.payload))

\* lines 98-102: plaintextBytes.length
PlaintextLen(s) == Len(JSONstringify(canonicalize(s.payload)))

\* the pre-encryption guard with >= for >
PlaintextTooLargeInclusive(len, maxPlaintext) == len >= maxPlaintext

\* line 103: plaintextBytes.length > maxPlaintext
PlaintextTooLarge(len, maxPlaintext) == len > maxPlaintext

\* the post-encryption guard left out
EnvelopeNeverTooLarge(len, maxEnvelope) == FALSE

\* line 169: envelopeJson.length > maxEnvelope
EnvelopeTooLarge(len, maxEnvelope) == len > maxEnvelope

\* the classical call that leaves the flag set
CallClassicalFlagged(s, keyOk) ==
    [s EXCEPT !.pc = "classical",
              !.pqcUsed = TRUE,
              !.classical = IF keyOk THEN "ok" ELSE "failed",
              !.encrypted = IF keyOk THEN encryptX25519Only(PlaintextLen(s)) ELSE NoEnvelope]

\* the call of encryptX25519Only: its body has no suspension point, so the envelope
\* (or the InvalidKey failure of a malformed recipient key) exists at the call
CallClassical(s, keyOk) ==
    [s EXCEPT !.pc = "classical",
              !.classical = IF keyOk THEN "ok" ELSE "failed",
              !.encrypted = IF keyOk THEN encryptX25519Only(PlaintextLen(s)) ELSE NoEnvelope]

\* the seal start that ignores attemptHybrid = false
StartSealAlwaysHybrid(s, keyOk) == [s EXCEPT !.pc = "hybrid", !.hybrid = "called"]

\* lines 114-125: the seal that is started
StartSeal(s, keyOk) ==
    IF ~s.attemptHybrid THEN CallClassical(s, keyOk)
    ELSE [s EXCEPT !.pc = "hybrid", !.hybrid = "called"]

\* lines 86-125: checkCryptoCapability settles; size guard; the seal is started
CapabilitySettled(p, kyberProbes, input) ==
    /\ sub[p].pc = "capability"
    /\ \E webCrypto \in input.webCrypto, kyber \in kyberProbes, rk \in input.requireKyber,
          ah \in input.attemptHybrid, maxPt \in input.maxPlaintext, keyOk \in input.keyOk,
          throws \in input.capabilityThrows :
         LET s == sub[p]
             cached == UseCached(s.capability, FALSE)
             crypto == IF cached THEN s.capability ELSE ProbeCapability(webCrypto, kyber)
             requireKyber == rk = "true"
             attemptHybrid == ah # "false"
             maxPlaintext == IF maxPt = Undefined THEN DEFAULT_MAX_PLAINTEXT ELSE maxPt
             s1 == [s EXCEPT !.capability = NoCapability, !.requireKyber = requireKyber,
                             !.attemptHybrid = attemptHybrid, !.available = "yes",
                             !.maxPlaintext = IF QuotaTracked THEN 0 ELSE maxPlaintext]
         IN
         /\ cachedCapability' = IF cached \/ throws THEN cachedCapability ELSE crypto
         /\ sub' = [sub EXCEPT ![p] =
                IF throws THEN
                    \* the awaited promise rejects: the catch of line 212
                    Done([s EXCEPT !.capability = NoCapability, !.available = "threw"],
                         Failure(MsgCapabilityThrew))
                ELSE IF ~crypto.available THEN
                    Done([s EXCEPT !.capability = NoCapability, !.available = "no"],
                         Failure(MsgCapability(crypto.error)))
                ELSE IF PlaintextTooLarge(PlaintextLen(s), maxPlaintext) THEN
                    Done(s1, Failure(MsgPlaintextTooLarge(PlaintextLen(s))))
                ELSE StartSeal(s1, keyOk)]
    /\ UNCHANGED <<now, sessionStorage, submitTimestamps, pqcModule, prior, quota, unit>>

\* lines 158-184: outer envelope, post-encryption size guard, pending write, fetch
Transmit(p, s, input) ==
    \E maxEnv \in input.maxEnvelope, writeOk \in input.storageOk :
       LET envelope == [v |-> DEFAULT_VERSION, id |-> s.id, pqcUsed |-> s.pqcUsed,
                        encrypted |-> s.encrypted]
           maxEnvelope == IF maxEnv = Undefined THEN DEFAULT_MAX_ENVELOPE ELSE maxEnv
           kept == IF QuotaTracked THEN 0 ELSE maxEnvelope
       IN
       IF EnvelopeTooLarge(EnvelopeJsonLen(envelope), maxEnvelope) THEN
           /\ sub' = [sub EXCEPT ![p] = Done([s EXCEPT !.maxEnvelope = kept],
                                               Failure(MsgEnvelopeTooLarge))]
           /\ UNCHANGED sessionStorage
       ELSE
           /\ sessionStorage' = setPendingId(sessionStorage, s.id, s.storageKey, writeOk)
           /\ sub' = [sub EXCEPT ![p] =
                        [s EXCEPT !.pc = "fetch", !.envelope = envelope,
                                  !.maxEnvelope = kept,
                                  !.pendingSets = @ + 1, !.pendingStored = writeOk,
                                  !.pendingTs = now,
                                  !.fetches = @ + 1]]

\* the catch that falls back even in strict mode
HybridFailedAlwaysFallback(s, callbackThrows, keyOk, rawMsg, debugDowngrade) ==
    LET s1 == [s EXCEPT !.hybrid = "failed", !.downgrades = @ + 1, !.rawMsg = rawMsg,
                        !.downgradeEvent = DowngradeEvent(rawMsg, debugDowngrade),
                        !.debugDowngrade = (debugDowngrade = "true")]
    IN  IF callbackThrows THEN Done([s1 EXCEPT !.callbackThrew = TRUE], Failure(MsgCallback))
        ELSE CallClassical(s1, keyOk)

\* the catch that falls back without emitting the DowngradeEvent
HybridFailedSilent(s, callbackThrows, keyOk, rawMsg, debugDowngrade) ==
    IF s.requireKyber THEN
        Done([s EXCEPT !.hybrid = "failed", !.debugDowngrade = (debugDowngrade = "true")],
             Failure(MsgStrict))
    ELSE CallClassical([s EXCEPT !.hybrid = "failed",
                                 !.debugDowngrade = (debugDowngrade = "true")], keyOk)

\* lines 129-155: the catch of a failed strong seal
\* the catch whose callback exception escapes the function: the promise rejects and
\* the caller gets no SubmitResult
HybridFailedCallbackUncaught(s, callbackThrows, keyOk, rawMsg, debugDowngrade) ==
    IF s.requireKyber THEN
        Done([s EXCEPT !.hybrid = "failed", !.debugDowngrade = (debugDowngrade = "true")],
             Failure(MsgStrict))
    ELSE
        LET s1 == [s EXCEPT !.hybrid = "failed", !.downgrades = @ + 1, !.rawMsg = rawMsg,
                            !.downgradeEvent = DowngradeEvent(rawMsg, debugDowngrade),
                            !.debugDowngrade = (debugDowngrade = "true")]
        IN  IF callbackThrows
            THEN Done([s1 EXCEPT !.callbackThrew = TRUE], NoResult)
            ELSE CallClassical(s1, keyOk)

\* rawMsg: the message of what was caught; debugDowngrade: the option as passed
HybridFailed(s, callbackThrows, keyOk, rawMsg, debugDowngrade) ==
    IF s.requireKyber THEN
        Done([s EXCEPT !.hybrid = "failed", !.debugDowngrade = (debugDowngrade = "true")],
             Failure(MsgStrict))
    ELSE
        LET s1 == [s EXCEPT !.hybrid = "failed", !.downgrades = @ + 1, !.rawMsg = rawMsg,
                            !.downgradeEvent = DowngradeEvent(rawMsg, debugDowngrade),
                            !.debugDowngrade = (debugDowngrade = "true")]
        IN  IF callbackThrows
            THEN Done([s1 EXCEPT !.callbackThrew = TRUE], Failure(MsgCallback))
            ELSE CallClassical(s1, keyOk)

\* lines 122-156: tryHybridEncryptLazy settles
HybridSettled(p, input) ==
    /\ sub[p].pc = "hybrid"
    /\ \E loadOk \in input.loadOk, sealOk \in input.sealOk, sealError \in input.sealErrors,
          callbackThrows \in input.callbackThrows, keyOk \in input.keyOk,
          debugDowngrade \in input.debugDowngrade :
         LET s == sub[p]
             loaded == pqcModule \/ loadOk          \* tryLoadHybrid
             \* hybrid-lazy.ts line 77 when the module did not load
             rawMsg == IF loaded THEN sealError ELSE MsgHybridUnavailable
         IN
         /\ pqcModule' = loaded
         /\ IF loaded /\ sealOk THEN
                /\ cachedCapability' = setCachedKyberStatus(cachedCapability, TRUE)
                /\ Transmit(p, [s EXCEPT !.pqcUsed = TRUE, !.hybrid = "ok",
                                         !.encrypted = hybridEncrypt(PlaintextLen(s))], input)
            ELSE
                /\ UNCHANGED <<cachedCapability, sessionStorage>>
                /\ sub' = [sub EXCEPT ![p] =
                             HybridFailed(s, callbackThrows, keyOk, rawMsg, debugDowngrade)]
    /\ UNCHANGED <<now, submitTimestamps, prior, quota, unit>>

\* the continuation that transmits whatever the classical seal produced
ClassicalSettledTransmitsAnyway(p, input) ==
    /\ sub[p].pc = "classical"
    /\ Transmit(p, [sub[p] EXCEPT !.rawMsg = <<>>, !.downgradeEvent = NoEvent], input)
    /\ UNCHANGED <<now, submitTimestamps, cachedCapability, pqcModule, prior, quota, unit>>

\* lines 117/154 resumed: the classical seal settles
ClassicalSettled(p, input) ==
    /\ sub[p].pc = "classical"
    /\ LET s == [sub[p] EXCEPT !.rawMsg = <<>>, !.downgradeEvent = NoEvent] IN
       IF s.classical = "failed" THEN
           /\ sub' = [sub EXCEPT ![p] = Done(s, Failure(MsgInvalidKey))]
           /\ UNCHANGED sessionStorage
       ELSE Transmit(p, s, input)
    /\ UNCHANGED <<now, submitTimestamps, cachedCapability, pqcModule, prior, quota, unit>>

Is2xxWholeClass(status) == status >= 200 /\ status < 300
Is2xxOnly200(status) == status = 200
Is2xxHandled(status) == status = 201 \/ status = 200
Is4xxExclusive(status) == status > 400 /\ status < 500
Is4xxOrAbove(status) == status >= 400
Is4xx(status) == status >= 400 /\ status < 500

\* how a submission that reached transport ended, for the next one on its key
Retryable(s) == IF s.pendingStored THEN [id |-> s.id, ts |-> s.pendingTs] ELSE NoPrior

\* lines 180-207: fetch settles with a response, or throws
FetchSettled(p, input) ==
    /\ sub[p].pc = "fetch"
    /\ LET s == sub[p] IN
       \/ \E message \in input.transportErrors :
            /\ sub' = [sub EXCEPT ![p] = Done([s EXCEPT !.outcome = "thrown"], Failure(message))]
            /\ prior' = [prior EXCEPT ![s.storageKey] = Retryable(s)]
            /\ UNCHANGED sessionStorage
       \/ \E status \in input.statuses, removeOk \in input.storageOk :
            LET s1 == [s EXCEPT !.outcome = "status", !.status = status] IN
            IF Is2xxHandled(status) THEN
                /\ sub' = [sub EXCEPT ![p] = [s1 EXCEPT !.pc = "json"]]
                /\ UNCHANGED <<sessionStorage, prior>>
            ELSE IF Is4xx(status) THEN
                /\ sessionStorage' = clearPendingSubmission(sessionStorage, s.storageKey, removeOk)
                /\ sub' = [sub EXCEPT ![p] =
                             [s1 EXCEPT !.pc = "errjson", !.clears = @ + 1, !.cleared = removeOk]]
                /\ UNCHANGED prior
            ELSE
                /\ sub' = [sub EXCEPT ![p] = [s1 EXCEPT !.pc = "errjson"]]
                /\ UNCHANGED <<sessionStorage, prior>>
    /\ UNCHANGED <<now, submitTimestamps, cachedCapability, pqcModule, quota, unit>>

\* lines 189-196: response.json() of a 200/201 settles
JsonSettled(p, input) ==
    /\ sub[p].pc = "json"
    /\ LET s == sub[p] IN
       \/ \* the body is not JSON: the catch of line 212
          /\ TRUE \in input.badJson
          /\ sub' = [sub EXCEPT ![p] = Done([s EXCEPT !.outcome = "badjson"], Failure(MsgBadJson))]
          /\ UNCHANGED <<sessionStorage, submitTimestamps>>
       \/ \E result \in {b \in ServerBodies(s.id) : b.ok \in input.bodyOk},
               removeOk \in input.storageOk :
            LET s1 == [s EXCEPT !.body = result, !.clears = @ + 1, !.cleared = removeOk]
            IN
            /\ sessionStorage' = clearPendingSubmission(sessionStorage, s.storageKey, removeOk)
            /\ IF result.ok THEN
                   /\ Len(submitTimestamps) < MaxRecorded
                   /\ submitTimestamps' = recordSubmit(submitTimestamps)
                   /\ sub' = [sub EXCEPT ![p] =
                                Done([s1 EXCEPT !.recorded = @ + 1],
                                     Success(result.id, result.status))]
               ELSE
                   /\ UNCHANGED submitTimestamps
                   /\ sub' = [sub EXCEPT ![p] =
                                Done(s1, Failure(IF result.error # "" THEN result.error
                                                 ELSE MsgUnknown))]
    /\ UNCHANGED <<now, cachedCapability, pqcModule, prior, quota, unit>>

\* the error-body read that is awaited again and again
ErrorJsonSettledAwaitsAgain(p, input) ==
    /\ sub[p].pc = "errjson"
    /\ UNCHANGED vars

\* lines 198-211: response.json().catch(() => ({})) of any other status settles
ErrorJsonSettled(p, input) ==
    /\ sub[p].pc = "errjson"
    /\ LET s == sub[p] IN
       \E errorData \in {b \in ServerBodies(s.id) : b.ok \in input.bodyOk}
                           \cup {b \in {NoBody} : TRUE \in input.badJson} :
          /\ sub' = [sub EXCEPT ![p] =
                Done([s EXCEPT !.body = errorData],
                     Failure(IF errorData.error # "" THEN errorData.error
                             ELSE IF Is4xx(s.status) THEN MsgRequestError(s.status)
                             ELSE MsgServerError(s.status)))]
          /\ prior' = IF Is4xx(s.status) THEN prior
                      ELSE [prior EXCEPT ![s.storageKey] = Retryable(s)]
    /\ UNCHANGED <<now, sessionStorage, submitTimestamps, cachedCapability, pqcModule, quota, unit>>

\* the caller takes the SubmitResult; the core retains nothing of the submission
Return(p) ==
    /\ sub[p].pc = "done"
    /\ sub' = [sub EXCEPT ![p] = IdleSub]
    /\ UNCHANGED <<now, sessionStorage, submitTimestamps, cachedCapability, pqcModule, prior, quota, unit>>

\* time passes (a result is taken by the caller at once)
Tick ==
    /\ \A p \in Procs : sub[p].pc # "done"
    /\ now < MaxTicks * TickMs
    /\ now' = now + TickMs
    /\ UNCHANGED <<sessionStorage, submitTimestamps, cachedCapability, pqcModule, sub, prior, quota, unit>>

resetCryptoCapabilityCache ==
    /\ cachedCapability # NoCapability
    /\ cachedCapability' = NoCapability
    /\ UNCHANGED <<now, sessionStorage, submitTimestamps, pqcModule, sub, prior, quota, unit>>

\* what the detector submitSecureIntake imports ("WebCrypto only - no WASM probe")
\* reports for kyber: false until setCachedKyberStatus promotes it
NoWasmProbe == {FALSE}

StepWith(p, input) ==
    \/ CapabilitySettled(p, NoWasmProbe, input)
    \/ HybridSettled(p, input)
    \/ ClassicalSettled(p, input)
    \/ FetchSettled(p, input)
    \/ JsonSettled(p, input)
    \/ ErrorJsonSettled(p, input)
    \/ Return(p)

Step(p) == StepWith(p, AllInputs)

AllIdle == \A q \in Procs : sub[q].pc = "idle"

\* one submission at a time: the single cooperative caller awaits each result
Next ==
    \/ \E p \in SeqProcs : AllIdle /\ Begin(p, {DEFAULT_STORAGE_KEY})
    \/ \E p \in SeqProcs : Step(p)
    \/ Tick
    \/ AllIdle /\ resetCryptoCapabilityCache

Spec == Init /\ [][Next]_vars

----------------------------------------------------------------------------
(* A deployment with one rateLimit option: every submission passes the same one *)

QuotaLimits == {c \in RateLimitChoices : ~c.disabled}

InitQuota == \E limit \in QuotaLimits : InitWith([NoQuota EXCEPT !.limit = limit])

BeginQuota(p) == BeginWith(p, {DEFAULT_STORAGE_KEY}, {quota.limit}, TRUE, AllInputs)

NextQuota ==
    \/ \E p \in SeqProcs : AllIdle /\ BeginQuota(p)
    \/ \E p \in SeqProcs : Step(p)
    \/ Tick
    \/ AllIdle /\ resetCryptoCapabilityCache

SpecQuota == InitQuota /\ [][NextQuota]_vars

----------------------------------------------------------------------------
(* The store and the limiter called directly: pending.ts and ratelimit.ts *)

UnitIds == {generateRequestId(canonicalize(payload)) : payload \in {"a@b.c", "x@y.cc"}}

\* unit after a call of op: the arguments of the call before are forgotten
Called(op) == [NoUnit EXCEPT !.seq = 1 - unit.seq, !.op = op, !.expect = unit.expect,
                             !.probes = unit.probes]

CallCheckRateLimit ==
    /\ \E config \in RateLimitChoices, isRetry \in BOOLEAN :
         /\ submitTimestamps' = checkRateLimitTimeline(config, isRetry, submitTimestamps)
         /\ unit' = [Called("checkRateLimit") EXCEPT
                        !.config = config, !.isRetry = isRetry,
                        !.admit = checkRateLimit(config, isRetry, submitTimestamps)]
    /\ UNCHANGED <<now, sessionStorage, cachedCapability, pqcModule, sub, prior, quota>>

CallRecordSubmit ==
    /\ Len(submitTimestamps) < MaxRecorded
    /\ submitTimestamps' = recordSubmit(submitTimestamps)
    /\ unit' = Called("recordSubmit")
    /\ UNCHANGED <<now, sessionStorage, cachedCapability, pqcModule, sub, prior, quota>>

resetRateLimit ==
    /\ submitTimestamps # <<>>
    /\ submitTimestamps' = <<>>
    /\ unit' = Called("resetRateLimit")
    /\ UNCHANGED <<now, sessionStorage, cachedCapability, pqcModule, sub, prior, quota>>

CallSetPendingId ==
    /\ \E id \in UnitIds, key \in StorageKeys, writeOk \in BOOLEAN :
         /\ sessionStorage' = setPendingId(sessionStorage, id, key, writeOk)
         /\ unit' = [Called("setPendingId") EXCEPT
                        !.key = key, !.id = id, !.ok = writeOk,
                        !.expect[key] = IF writeOk
                                        THEN [id |-> id, ts |-> now, live |-> TRUE, clean |-> TRUE]
                                        ELSE [@ EXCEPT !.clean = FALSE]]
    /\ UNCHANGED <<now, submitTimestamps, cachedCapability, pqcModule, sub, prior, quota>>

CallGetPendingId ==
    /\ \E key \in StorageKeys, ttl \in TtlChoices, readOk \in BOOLEAN, removeOk \in BOOLEAN :
         LET ttlMs == IF ttl = Undefined THEN DEFAULT_TTL_MS ELSE ttl
             e == unit.expect[key]
             expired == readOk /\ e.live /\ now - e.ts > ttlMs
         IN
         /\ sessionStorage' = getPendingIdStore(sessionStorage, key, ttlMs, readOk, removeOk)
         /\ unit' = [Called("getPendingId") EXCEPT
                        !.key = key, !.ttlMs = ttlMs, !.ok = readOk,
                        !.result = getPendingId(sessionStorage, key, ttlMs, readOk),
                        !.expect[key] = IF ~expired THEN @
                                        ELSE IF removeOk THEN [@ EXCEPT !.live = FALSE]
                                        ELSE [@ EXCEPT !.clean = FALSE]]
    /\ UNCHANGED <<now, submitTimestamps, cachedCapability, pqcModule, sub, prior, quota>>

CallClearPendingSubmission ==
    /\ \E key \in StorageKeys, removeOk \in BOOLEAN :
         /\ sessionStorage' = clearPendingSubmission(sessionStorage, key, removeOk)
         /\ unit' = [Called("clearPendingSubmission") EXCEPT
                        !.key = key, !.ok = removeOk,
                        !.expect[key] = IF removeOk THEN [@ EXCEPT !.live = FALSE]
                                        ELSE [@ EXCEPT !.clean = FALSE]]
    /\ UNCHANGED <<now, submitTimestamps, cachedCapability, pqcModule, sub, prior, quota>>

NextUnits ==
    \/ CallCheckRateLimit
    \/ CallRecordSubmit
    \/ resetRateLimit
    \/ CallSetPendingId
    \/ CallGetPendingId
    \/ CallClearPendingSubmission
    \/ Tick

SpecUnits == Init /\ [][NextUnits]_vars

----------------------------------------------------------------------------
(* The capability detector called directly: capability.ts *)

\* checkCryptoCapability(force), awaited by its caller before anything else is called
CallCheckCryptoCapability(kyberProbes) ==
    /\ \E force \in BOOLEAN, webCrypto \in BOOLEAN, kyber \in kyberProbes :
         LET cached == UseCached(cachedCapability, force)
             crypto == IF cached THEN cachedCapability ELSE ProbeCapability(webCrypto, kyber)
         IN
         /\ cached \/ unit.probes < MaxProbes
         /\ cachedCapability' = crypto
         /\ unit' = [Called("checkCryptoCapability") EXCEPT
                        !.force = force, !.probed = ~cached, !.returned = crypto,
                        !.probes = IF cached THEN @ ELSE @ + 1]
    /\ UNCHANGED <<now, sessionStorage, submitTimestamps, pqcModule, sub, prior, quota>>

CallSetCachedKyberStatus ==
    /\ cachedCapability' = setCachedKyberStatus(cachedCapability, TRUE)
    /\ unit' = Called("setCachedKyberStatus")
    /\ UNCHANGED <<now, sessionStorage, submitTimestamps, pqcModule, sub, prior, quota>>

NextCapability ==
    \/ CallCheckCryptoCapability(BOOLEAN)
    \/ resetCryptoCapabilityCache
    \/ CallSetCachedKyberStatus

SpecCapability == Init /\ [][NextCapability]_vars

----------------------------------------------------------------------------
(* The identifier computed directly: presets/pilot-access.ts, id.ts *)

\* client.generateId(data, kind): generateRequestId(canonicalizePilotAccessPayload(data, kind))
generateId ==
    /\ \E data \in RequestForms, kind \in PilotAccessKinds :
         LET canonicalized == canonicalizePilotAccessPayload(data, kind)
         IN  unit' = [Called("generateId") EXCEPT
                         !.seq = unit.seq,
                         !.data = data, !.kind = kind, !.canonicalized = canonicalized,
                         !.requestId = generateRequestIdHex(canonicalized),
                         !.at = now,
                         !.again = IF unit.op # "generateId" \/ unit.canonicalized # canonicalized
                                   THEN "no"
                                   ELSE IF unit.at < now THEN "later" ELSE "same"]
    /\ UNCHANGED <<now, sessionStorage, submitTimestamps, cachedCapability, pqcModule, sub,
                   prior, quota>>

NextIds ==
    \/ generateId
    \/ Tick

SpecIds == Init /\ [][NextIds]_vars

----------------------------------------------------------------------------
(* The downgrade reason computed directly: submit.ts *)

\* classifyDowngradeReason(rawMsg), as the catch of the strong seal calls it
CallClassifyDowngradeReason ==
    /\ \E msg \in FailureMessages :
         unit' = [Called("classifyDowngradeReason") EXCEPT
                     !.msg = msg, !.reason = classifyDowngradeReason(msg)]
    /\ UNCHANGED <<now, sessionStorage, submitTimestamps, cachedCapability, pqcModule, sub,
                   prior, quota>>

NextReasons ==
    \/ CallClassifyDowngradeReason

SpecReasons == Init /\ [][NextReasons]_vars

----------------------------------------------------------------------------
(* Properties *)

\* the pending record this submission wrote is still the one in the storage
PendingIntact(s) ==
    s.pendingStored => sessionStorage[s.storageKey] = [id |-> s.id, ts |-> s.pendingTs]

\* C1: in strict mode (requireKyber = true) a failed strong seal ends the submission
\* with the strict-mode message; no seal result, no outer envelope, no fetch, no
\* pending write and no DowngradeEvent exist in that submission.
C1_StrictFailsClosed ==
    \A p \in Procs :
       LET s == sub[p] IN
       (s.requireKyber /\ s.hybrid = "failed") =>
          /\ s.pc = "done"
          /\ s.result = Failure(MsgStrict)
          /\ s.classical = "none" /\ s.encrypted = NoEnvelope /\ s.envelope = NoOuter
          /\ s.fetches = 0
          /\ s.pendingSets = 0 /\ ~s.pendingStored
          /\ s.downgrades = 0

C1_Witness ==
    \E p \in Procs : sub[p].requireKyber /\ sub[p].hybrid = "failed" /\ sub[p].pc = "done"

\* C2: in best-effort mode (requireKyber false or unset) a failed strong seal emits
\* exactly one DowngradeEvent and, unless the onDowngrade callback throws, goes on to
\* the classical seal; every envelope of that submission is the classical one and
\* the outer object handed to fetch carries pqcUsed = false.
C2_BestEffortDowngrades ==
    \A p \in Procs :
       LET s == sub[p] IN
       (~s.requireKyber /\ s.hybrid = "failed") =>
          /\ s.downgrades = 1
          /\ ~s.pqcUsed
          /\ s.callbackThrew \/ s.classical \in {"ok", "failed"}
          /\ s.classical = "ok" => s.encrypted.suite = X25519_ONLY_SUITE
          /\ s.fetches > 0 =>
                /\ s.envelope.pqcUsed = FALSE
                /\ s.envelope.encrypted.suite = X25519_ONLY_SUITE
                /\ s.envelope.encrypted.kyberKemCt = ""

C2_Witness ==
    \E p \in Procs :
       /\ ~sub[p].requireKyber /\ sub[p].hybrid = "failed"
       /\ sub[p].fetches = 1 /\ sub[p].envelope.encrypted.suite = X25519_ONLY_SUITE

\* C3: a DowngradeEvent exists only in a submission that is best-effort, attempted
\* the strong seal and saw it fail; at most one per submission.
C3_DowngradeOnlyOnBestEffortFailure ==
    \A p \in Procs :
       LET s == sub[p] IN
       s.downgrades > 0 =>
          /\ s.downgrades = 1
          /\ ~s.requireKyber
          /\ s.attemptHybrid
          /\ s.hybrid = "failed"

C3_Witness ==
    \E p \in Procs : sub[p].downgrades = 1 /\ sub[p].pc = "done" /\ sub[p].result.ok

\* C4: whenever fetch has been called, setPendingId was called before it in the same
\* submission, and while the call is in flight the storage (when it accepted the
\* write) holds the record {id of the transmitted object, time of the write}.
C4_PendingBeforeTransport ==
    \A p \in Procs :
       LET s == sub[p] IN
       s.fetches > 0 =>
          /\ s.pendingSets = 1
          /\ s.envelope.id = s.id
          /\ (s.pc = "fetch" /\ s.pendingStored) =>
                sessionStorage[s.storageKey] = [id |-> s.envelope.id, ts |-> s.pendingTs]

C4_Witness ==
    \E p \in Procs : sub[p].pc = "fetch" /\ sub[p].pendingStored /\ sub[p].fetches = 1

\* C5 as stated: every 2xx response whose body has the success flag set is a success
\* that clears the pending record and records one submission.
C5_Original ==
    \A p \in Procs :
       LET s == sub[p] IN
       (s.pc = "done" /\ s.outcome = "status" /\ s.status >= 200 /\ s.status < 300 /\ s.body.ok) =>
          /\ s.result.ok
          /\ s.clears = 1
          /\ s.recorded = 1

C5_SuccessState ==
    \A p \in Procs :
       LET s == sub[p] IN
       (s.pc = "done" /\ s.outcome = "status" /\ s.status \in {200, 201} /\ s.body.ok) =>
          /\ s.result = Success(s.body.id, s.body.status)
          /\ s.result.status \in {"created", "duplicate"}
          /\ s.clears = 1
          /\ s.cleared => sessionStorage[s.storageKey] = NoRecord
          /\ s.recorded = 1

C5_SuccessStep ==
    \A p \in Procs :
       (sub[p].pc = "json" /\ sub'[p].pc = "done" /\ sub'[p].body.ok) =>
          submitTimestamps' = Append(submitTimestamps, now)

\* C5 (amended): a response with status 200 or 201 whose body has the success flag
\* set clears the pending record, appends exactly one timestamp (the current time) to
\* the rate-limit window and returns success with the server-reported id and status.
C5_SuccessOn200Or201 == [](C5_SuccessState) /\ [][C5_SuccessStep]_vars

C5_Witness ==
    \E p \in Procs :
       /\ sub[p].pc = "done" /\ sub[p].status = 201 /\ sub[p].body.ok
       /\ sub[p].result.ok /\ sub[p].cleared

C7_ClientErrorState ==
    \A p \in Procs :
       LET s == sub[p] IN
       (s.outcome = "status" /\ s.status >= 400 /\ s.status < 500) =>
          /\ s.clears = 1
          /\ s.cleared => sessionStorage[s.storageKey] = NoRecord
          /\ s.recorded = 0
          /\ s.pc = "done" =>
                s.result = Failure(IF s.body.error # "" THEN s.body.error
                                   ELSE MsgRequestError(s.status))

C7_ClientErrorStep ==
    \A p \in Procs :
       (sub'[p].outcome = "status" /\ sub'[p].status >= 400 /\ sub'[p].status < 500
          /\ sub'[p] # sub[p]) => submitTimestamps' = submitTimestamps

\* C7: on a 4xx status the pending record is cleared, the rate-limit window is left
\* as it is, and the failure carries the body's error message, or, when the body has
\* none, the request-error message naming the status.
C7_ClientErrorClearsPending == [](C7_ClientErrorState) /\ [][C7_ClientErrorStep]_vars

C7_Witness ==
    \E p \in Procs :
       /\ sub[p].pc = "done" /\ sub[p].outcome = "status" /\ sub[p].status = 400
       /\ sub[p].cleared /\ sub[p].result.error = MsgRequestError(400)

\* the submission ended in a status that is neither 200/201 nor 4xx, or fetch threw
EndedRetryable(s) ==
    \/ s.outcome = "thrown"
    \/ s.outcome = "status" /\ s.status \notin {200, 201} /\ ~(s.status >= 400 /\ s.status < 500)

\* C8 as stated: as C8 below, but a status always gets the retry-suggesting message.
C8_Original ==
    \A p \in Procs :
       LET s == sub[p] IN
       (s.pc = "done" /\ EndedRetryable(s)) =>
          /\ PendingIntact(s)
          /\ s.recorded = 0
          /\ s.result = Failure(IF s.outcome = "thrown" THEN "Failed to fetch"
                                ELSE MsgServerError(s.status))

C8_RetryableState ==
    \A p \in Procs :
       LET s == sub[p] IN
       EndedRetryable(s) =>
          /\ PendingIntact(s)
          /\ s.clears = 0
          /\ s.recorded = 0
          /\ s.pc = "done" =>
                /\ ~s.result.ok
                /\ s.outcome = "thrown" => s.result.error \in TransportErrors
                /\ s.outcome = "status" =>
                      s.result.error = IF s.body.error # "" THEN s.body.error
                                       ELSE MsgServerError(s.status)

C8_RetryableStep ==
    \A p \in Procs :
       (EndedRetryable(sub'[p]) /\ sub'[p] # sub[p]) =>
          /\ submitTimestamps' = submitTimestamps
          /\ sessionStorage' = sessionStorage

\* C8 (amended): on a 5xx or otherwise unrecognized status, or when fetch throws, the
\* pending record written for the submission stays in the storage, the window gets no
\* entry, and a failure is returned: for a status the body's error message when it
\* has one, else the retry-suggesting message; for a thrown error its message.
C8_RetryableKeepsPending == [](C8_RetryableState) /\ [][C8_RetryableStep]_vars

C8_Witness ==
    \E p \in Procs :
       /\ sub[p].pc = "done" /\ sub[p].outcome = "status" /\ sub[p].status = 500
       /\ sub[p].pendingStored /\ sub[p].body.error # ""

\* C9: when the last submission on the storage key reached transport with the same
\* payload identifier, ended in a 5xx/unrecognized status or a thrown transport error
\* (its pending write accepted by the storage), and this one starts no later than the
\* TTL after that write and reads the storage without fault, then it is a retry, the
\* rate limiter admits it, and what it sends carries the same identifier.
C9_RetryDetected ==
    \A p \in Procs :
       LET s == sub[p] IN
       s.retryExpected =>
          /\ s.isRetry
          /\ s.admission = "admitted"
          /\ s.id = generateRequestId(canonicalize(s.payload))
          /\ s.fetches > 0 => s.envelope.id = s.id

\* the retry goes out while the window holds MaxRecorded entries
C9_Witness ==
    \E p \in Procs :
       /\ sub[p].retryExpected /\ sub[p].pc = "fetch"
       /\ Len(submitTimestamps) >= DEFAULT_MAX
       /\ \A i \in 1..Len(submitTimestamps) : submitTimestamps[i] = now

\* a step in which the rate limiter denies the submission
Denied(p) == sub[p].pc = "idle" /\ sub'[p].pc = "done" /\ sub'[p].admission = "denied"

\* C10 as stated: a denial leaves the pending store and the window exactly as before.
C10_Original ==
    [][\A p \in Procs :
          Denied(p) =>
             /\ sub'[p].result = Failure(MsgRateLimited)
             /\ sessionStorage' = sessionStorage
             /\ submitTimestamps' = submitTimestamps]_vars

C10_DeniedStep ==
    \A p \in Procs :
       Denied(p) =>
          LET s == sub'[p]
              key == s.storageKey
              cutoff == now - s.windowMs
              n == Len(submitTimestamps)
          IN
          /\ s.result = Failure(MsgRateLimited)
          /\ ~s.isRetry
          /\ s.hybrid = "none" /\ s.classical = "none" /\ s.fetches = 0 /\ s.pendingSets = 0
          /\ UNCHANGED <<cachedCapability, pqcModule, now>>
          \* the window: only a prefix of entries older than the cutoff is gone
          /\ \E k \in 0..n :
                /\ submitTimestamps' = SubSeq(submitTimestamps, k + 1, n)
                /\ \A i \in 1..k : submitTimestamps[i] < cutoff
                /\ k < n => submitTimestamps[k + 1] >= cutoff
          \* the store: only an expired record under this key may be gone
          /\ \A k \in StorageKeys : k # key => sessionStorage'[k] = sessionStorage[k]
          /\ \/ sessionStorage'[key] = sessionStorage[key]
             \/ /\ sessionStorage'[key] = NoRecord
                /\ sessionStorage[key] # NoRecord
                /\ now - sessionStorage[key].ts > s.ttlMs

\* C10 (amended): a denial returns the throttling message and invokes neither a seal
\* nor transport; it writes no pending record and records nothing. The only changes
\* are the ones the two reads make: entries older than the window are pruned from
\* the front of the timeline, and an expired pending record under the key is deleted.
C10_DenialOnlyExpires == [][C10_DeniedStep]_vars

C10_Witness ==
    \E p \in Procs :
       /\ sub[p].pc = "done" /\ sub[p].admission = "denied"
       /\ sub[p].result = Failure(MsgRateLimited)

\* how many timestamps of a timeline lie within the window that ends now
InWindow(ts, windowMs) == Cardinality({i \in 1..Len(ts) : ts[i] >= now - windowMs})

\* C11 as stated: with max = N, of the non-retry submissions made within one window
\* the first N pass the rate-limit check and every later one is rejected; a retry
\* passes regardless. (Every submission so far lies within one window when no more
\* than windowMs has passed since the start.)
C11_Original ==
    \A p \in Procs :
       LET s == sub[p] IN
       (s.admission # "none" /\ now <= WindowMsOf(quota.limit)) =>
          IF s.isRetry THEN s.admission = "admitted"
          ELSE /\ quota.n <= MaxOf(quota.limit) => s.admission = "admitted"
               /\ quota.n > MaxOf(quota.limit) => s.admission = "denied"

C11_CheckStep ==
    \A p \in Procs :
       (sub[p].pc = "idle" /\ sub'[p].admission # "none") =>
          LET s == sub'[p] IN
          IF s.isRetry THEN s.admission = "admitted"
          ELSE (s.admission = "admitted") <=>
                  InWindow(submitTimestamps, WindowMsOf(quota.limit)) < MaxOf(quota.limit)

C11_RecordedState ==
    \A p \in Procs :
       sub[p].pc = "done" =>
          /\ sub[p].recorded \in {0, 1}
          /\ sub[p].recorded = 1 <=> (sub[p].result.ok /\ ~sub[p].honeypot)

\* C11 (amended): with max = N, a non-retry submission passes the rate-limit check
\* exactly when fewer than N recorded timestamps lie within the last windowMs, and a
\* retry passes whatever the window holds; a timestamp is recorded by each submission
\* that ends in success and by no other, so submissions that end without success
\* take no slot.
C11_AdmittedWhileBelowMax == [](C11_RecordedState) /\ [][C11_CheckStep]_vars

\* the third non-retry submission is rejected after two recorded successes (max = 2)
C11_Witness ==
    \E p \in Procs :
       /\ sub[p].pc = "done" /\ sub[p].admission = "denied" /\ ~sub[p].isRetry
       /\ quota.limit.max = Undefined /\ quota.n = DEFAULT_MAX + 1
       /\ InWindow(submitTimestamps, DEFAULT_WINDOW_MS) = DEFAULT_MAX

\* the window holds more than max timestamps within the last windowMs
OverMax == InWindow(submitTimestamps, WindowMsOf(quota.limit)) > MaxOf(quota.limit)

\* C12 as stated: in a deployment with one rateLimit option {max, windowMs}, after any
\* sequence of submissions the timestamps of the window that lie within the last
\* windowMs number at most max.
C12_Original == ~OverMax

C12_ExceedStep ==
    (OverMax' /\ ~OverMax) =>
       \E p \in Procs : /\ sub[p].isRetry /\ sub[p].pc = "json"
                        /\ sub'[p].pc = "done" /\ sub'[p].recorded = 1

\* C12 (amended): under one rateLimit option, the number of timestamps within the last
\* windowMs goes above max only by the timestamp a retry records when it succeeds;
\* no submission that passed the rate-limit check as a non-retry brings it above max.
C12_OnlyRetriesExceed == [][C12_ExceedStep]_vars

\* a non-retry submission succeeds into the last slot of the window (max = 2)
C12_Witness ==
    \E p \in Procs :
       /\ sub[p].pc = "done" /\ ~sub[p].isRetry /\ sub[p].recorded = 1
       /\ quota.limit.max = Undefined
       /\ InWindow(submitTimestamps, DEFAULT_WINDOW_MS) = DEFAULT_MAX

\* C13 as stated: no step of a submission detected as a retry, from its rate-limit
\* check to its terminal outcome, changes the window.
C13_Original ==
    [][\A p \in Procs :
          (sub'[p].isRetry /\ sub'[p] # sub[p]) => submitTimestamps' = submitTimestamps]_vars

C13_RetryStep ==
    \A p \in Procs :
       (sub'[p].isRetry /\ sub'[p] # sub[p]) =>
          \/ submitTimestamps' = submitTimestamps
          \/ /\ sub[p].pc = "json" /\ sub'[p].pc = "done"
             /\ sub'[p].result.ok /\ sub'[p].body.ok
             /\ submitTimestamps' = Append(submitTimestamps, now)

C13_RetryState ==
    \A p \in Procs :
       (sub[p].isRetry /\ sub[p].pc = "done") =>
          /\ sub[p].admission = "admitted"
          /\ sub[p].recorded = IF sub[p].result.ok THEN 1 ELSE 0

\* C13 (amended): a submission detected as a retry is admitted without the window
\* being read or pruned, and no step of it changes the window except the one that
\* ends it in success, which appends one timestamp as for any successful submission.
C13_RetryRecordsOnlySuccess == [](C13_RetryState) /\ [][C13_RetryStep]_vars

\* a retry ends in success while an entry older than its window is still in the timeline
C13_Witness ==
    \E p \in Procs :
       /\ sub[p].isRetry /\ sub[p].pc = "done" /\ sub[p].result.ok /\ sub[p].recorded = 1
       /\ Len(submitTimestamps) = 2 /\ submitTimestamps[1] < now - DEFAULT_WINDOW_MS + TickMs

\* C14: the window grows only by the step in which a submission that passed the
\* rate-limit check reads a 200/201 body with ok = true, and then by exactly one
\* timestamp, the current time; a submission that ended any other way (honeypot,
\* rate-limit, capability, size or strict rejection, ok = false, 4xx, 5xx, thrown
\* error) has made no call of recordSubmit.
C14_RecordStep ==
    Len(submitTimestamps') > Len(submitTimestamps) =>
       /\ submitTimestamps' = Append(submitTimestamps, now)
       /\ \E p \in Procs :
             /\ sub[p].pc = "json" /\ sub'[p].pc = "done"
             /\ sub'[p].admission = "admitted"
             /\ sub'[p].fetches = 1 /\ sub'[p].outcome = "status"
             /\ sub'[p].status \in {200, 201} /\ sub'[p].body.ok
             /\ sub'[p].result.ok /\ sub'[p].recorded = 1

C14_RecordState ==
    \A p \in Procs :
       LET s == sub[p] IN
       /\ s.recorded > 0 =>
             /\ s.recorded = 1 /\ s.pc = "done" /\ s.admission = "admitted"
             /\ s.outcome = "status" /\ s.status \in {200, 201} /\ s.body.ok /\ s.result.ok
       /\ (s.pc = "done" /\ s.recorded = 0) =>
             ~(s.outcome = "status" /\ s.status \in {200, 201} /\ s.body.ok)
       /\ (s.honeypot \/ s.admission = "denied" \/ s.available = "no") => s.recorded = 0

C14_RecordOnlyOnSuccess == [](C14_RecordState) /\ [][C14_RecordStep]_vars

C14_Witness ==
    \E p \in Procs :
       /\ sub[p].pc = "done" /\ sub[p].recorded = 1 /\ ~sub[p].isRetry
       /\ submitTimestamps = <<now>>


\* C15: a direct call of checkRateLimit returns true when config is false, true
\* when isRetry is true, and otherwise true exactly when fewer than max of the
\* timestamps in the timeline are at or after now - windowMs (max 2 and
\* windowMs 60000 when unset), whatever the timeline and the clock.
C15_CheckStep ==
    (unit'.seq # unit.seq /\ unit'.op = "checkRateLimit") =>
        LET c == unit'.config
            max == IF c.max = Undefined THEN 2 ELSE c.max
            windowMs == IF c.windowMs = Undefined THEN 60000 ELSE c.windowMs
        IN unit'.admit = (c.disabled \/ unit'.isRetry \/ InWindow(submitTimestamps, windowMs) < max)
C15_CheckRateLimitResult == [][C15_CheckStep]_vars
\* a non-retry call under the default limits refused with two timestamps in the window
C15_Witness ==
    /\ unit.op = "checkRateLimit"
    /\ ~unit.admit
    /\ ~unit.isRetry
    /\ unit.config.max = Undefined
    /\ Len(submitTimestamps) = 2


\* C16 as stated: a read that the storage serves returns the id set at time t
\* while less than ttl ms have passed since t, and absent from ttl ms on.
C16_Original ==
    [][(unit'.seq # unit.seq /\ unit'.op = "getPendingId" /\ unit'.ok) =>
          LET e == unit.expect[unit'.key]
          IN (e.clean /\ e.live) =>
                 unit'.result = IF now - e.ts < unit'.ttlMs THEN e.id ELSE NoPending]_vars

\* C16: after setPendingId(id, key) at time t, with the storage serving every
\* call, getPendingId(key, ttl) returns id while no more than ttl ms have
\* passed since t and absent once more than ttl ms have passed; that expired
\* read removes the record, so every later read of the key, whatever its ttl,
\* is absent until the next set.
C16_ReadStep ==
    (unit'.seq # unit.seq /\ unit'.op = "getPendingId" /\ unit'.ok) =>
        LET e == unit.expect[unit'.key]
            expired == e.live /\ now - e.ts > unit'.ttlMs
        IN e.clean =>
             /\ unit'.result = IF e.live /\ ~expired THEN e.id ELSE NoPending
             /\ (expired /\ unit'.expect[unit'.key].clean) =>
                    sessionStorage'[unit'.key] = NoRecord
C16_PendingUntilTtlExceeded == [][C16_ReadStep]_vars
\* a read at exactly ttl ms after the set returned the id, and a read with a
\* shorter ttl then found it expired and removed it
C16_Witness ==
    /\ unit.op = "getPendingId"
    /\ unit.ok
    /\ unit.result = NoPending
    /\ unit.expect[unit.key].clean
    /\ ~unit.expect[unit.key].live
    /\ unit.expect[unit.key].ts # Undefined
    /\ now - unit.expect[unit.key].ts > unit.ttlMs
    /\ sessionStorage[unit.key] = NoRecord


\* C17: under each storage key the store holds nothing or exactly the record of
\* the last setPendingId the storage accepted for that key, and a read that
\* follows any sequence of set, clear and get calls returns that last id or
\* absent, never the id of an earlier set.
C17_StoreState ==
    \A k \in StorageKeys :
        sessionStorage[k] \in {NoRecord, [id |-> unit.expect[k].id, ts |-> unit.expect[k].ts]}
C17_ReadStep ==
    (unit'.seq # unit.seq /\ unit'.op = "getPendingId") =>
        unit'.result \in {NoPending, unit.expect[unit'.key].id}
C17_LastWriteWins == [](C17_StoreState) /\ [][C17_ReadStep]_vars
\* a read returned the id of a record that was set after the clock had advanced
C17_Witness ==
    /\ unit.op = "getPendingId"
    /\ unit.result # NoPending
    /\ unit.result = unit.expect[unit.key].id
    /\ unit.expect[unit.key].ts > 0
    /\ sessionStorage[unit.key].ts = unit.expect[unit.key].ts


\* the results the orchestrator derives from what transport returned to s
C18_TransportResults(s) ==
    IF s.outcome = "thrown" THEN {Failure(message) : message \in TransportErrors}
    ELSE IF s.outcome = "badjson" THEN {Failure(MsgBadJson)}
    ELSE IF s.status \in {200, 201}
    THEN {IF s.body.ok THEN Success(s.body.id, s.body.status)
          ELSE Failure(IF s.body.error # "" THEN s.body.error ELSE MsgUnknown)}
    ELSE {Failure(IF s.body.error # "" THEN s.body.error
                  ELSE IF s.status >= 400 /\ s.status < 500 THEN MsgRequestError(s.status)
                  ELSE MsgServerError(s.status))}

\* C18: a storage failure never fails a submission. A read that throws is taken
\* as no pending record, so the submission goes on as a non-retry; a write that
\* throws is swallowed and the submission goes on to its one fetch; and a
\* submission that met a failing read, write or delete and reached transport
\* returns what transport's outcome alone determines.
C18_StorageFailuresSwallowed ==
    \A p \in Procs :
        LET s == sub[p]
            failed == s.readFailed \/ (s.pendingSets = 1 /\ ~s.pendingStored)
                        \/ (s.clears = 1 /\ ~s.cleared)
        IN
        /\ s.readFailed => ~s.isRetry
        /\ (s.pendingSets = 1 /\ ~s.pendingStored) =>
               /\ s.pc \in {"fetch", "json", "errjson", "done"}
               /\ s.fetches = 1
        /\ (s.pc = "done" /\ s.fetches = 1 /\ failed) => s.result \in C18_TransportResults(s)
\* a submission whose read, write and delete all failed returned the server's success
C18_Witness ==
    \E p \in Procs :
        /\ sub[p].pc = "done"
        /\ sub[p].readFailed
        /\ sub[p].pendingSets = 1 /\ ~sub[p].pendingStored
        /\ sub[p].clears = 1 /\ ~sub[p].cleared
        /\ sub[p].result.ok
        /\ sub[p].result.id = sub[p].body.id


\* C19: a submission whose honeypot option holds a value returns success with
\* an empty id and status created in its first step, having called neither the
\* canonicalizer nor a seal nor fetch, and leaves the pending store, the
\* rate-limit timeline and the capability cache as they were.
C19_HoneypotStep ==
    \A p \in Procs :
        (sub[p].pc = "idle" /\ sub'[p].pc # "idle" /\ sub'[p].honeypot) =>
            /\ sub'[p].pc = "done"
            /\ sub'[p].result = [ok |-> TRUE, id |-> "", status |-> "created", error |-> ""]
            /\ sub'[p].canonicalized = 0
            /\ sub'[p].hybrid = "none" /\ sub'[p].classical = "none"
            /\ sub'[p].fetches = 0
            /\ sub'[p].pendingSets = 0 /\ sub'[p].clears = 0 /\ sub'[p].recorded = 0
            /\ sessionStorage' = sessionStorage
            /\ submitTimestamps' = submitTimestamps
            /\ cachedCapability' = cachedCapability
C19_HoneypotShortCircuit == [][C19_HoneypotStep]_vars
\* a honeypot submission returned while a pending record, a recorded timestamp
\* and a cached capability were in place
C19_Witness ==
    \E p \in Procs :
        /\ sub[p].pc = "done"
        /\ sub[p].honeypot
        /\ sub[p].result.ok
        /\ sessionStorage[DEFAULT_STORAGE_KEY] # NoRecord
        /\ submitTimestamps # <<>>
        /\ cachedCapability # NoCapability


\* C20: a submission whose capability check reports available = false returns a
\* failure whose message names the missing primitive (WebCrypto), and in that
\* submission no seal is attempted, the strong-suite module is not loaded, no
\* pending record is written and fetch is not called.
C20_UnavailableState ==
    \A p \in Procs :
        sub[p].available = "no" =>
            /\ sub[p].pc = "done"
            /\ sub[p].result =
                 [ok |-> FALSE, id |-> "", status |-> "",
                  error |-> "Your browser cannot securely submit this form. Missing: WebCrypto. Please use a modern browser (Chrome, Firefox, Safari, Edge)."]
            /\ sub[p].hybrid = "none" /\ sub[p].classical = "none"
            /\ sub[p].encrypted = NoEnvelope
            /\ sub[p].pendingSets = 0
            /\ sub[p].fetches = 0
C20_UnavailableStep ==
    \A p \in Procs :
        (sub[p].pc = "capability" /\ sub'[p].available = "no") =>
            /\ pqcModule' = pqcModule
            /\ sessionStorage' = sessionStorage
C21_GuardState ==
    \A p \in Procs :
        LET s == sub[p] IN
        s.available = "yes" =>
            /\ s.maxPlaintext \in {32768} \cup (MaxPlaintextChoices \ {Undefined})
            /\ PlaintextLen(s) > s.maxPlaintext =>
                   /\ s.pc = "done"
                   /\ s.result = [ok |-> FALSE, id |-> "", status |-> "",
                                  error |-> "Submission too large (0KB). Please shorten your responses."]
                   /\ s.hybrid = "none" /\ s.classical = "none"
                   /\ s.encrypted = NoEnvelope
                   /\ s.downgrades = 0
                   /\ s.pendingSets = 0
                   /\ s.fetches = 0
            /\ PlaintextLen(s) <= s.maxPlaintext =>
                   (s.hybrid # "none" \/ s.classical # "none")
C21_GuardStep ==
    \A p \in Procs :
        (sub[p].pc = "capability" /\ sub'[p].available = "yes"
           /\ PlaintextLen(sub'[p]) > sub'[p].maxPlaintext) =>
            /\ pqcModule' = pqcModule
            /\ sessionStorage' = sessionStorage
C21_PlaintextGuard == [](C21_GuardState) /\ [][C21_GuardStep]_vars
\* a 14-byte plaintext was rejected under a ceiling of 13
C21_Witness ==
    \E p \in Procs :
        /\ sub[p].pc = "done"
        /\ sub[p].available = "yes"
        /\ PlaintextLen(sub[p]) = sub[p].maxPlaintext + 1
        /\ ~sub[p].result.ok


\* the serialized outer envelope submission s built, or would have built
C22_EnvelopeLen(s) ==
    EnvelopeJsonLen([v |-> DEFAULT_VERSION, id |-> s.id, pqcUsed |-> s.pqcUsed,
                     encrypted |-> s.encrypted])

\* C22: a submission whose serialized outer envelope is longer than
\* maxEnvelopeBytes (57344 when unset) ends on the envelope size message without
\* calling setPendingId or fetch, and the pending store is left as it was.
C22_GuardState ==
    \A p \in Procs :
        LET s == sub[p] IN
        s.maxEnvelope # 0 =>
            /\ s.maxEnvelope \in {57344} \cup (MaxEnvelopeChoices \ {Undefined})
            /\ C22_EnvelopeLen(s) > s.maxEnvelope =>
                   /\ s.pc = "done"
                   /\ s.result = [ok |-> FALSE, id |-> "", status |-> "",
                                  error |-> "Encrypted submission too large. Please shorten your responses."]
                   /\ s.pendingSets = 0
                   /\ s.fetches = 0
            /\ C22_EnvelopeLen(s) <= s.maxEnvelope => s.fetches = 1
C22_GuardStep ==
    \A p \in Procs :
        (sub[p].maxEnvelope = 0 /\ sub'[p].maxEnvelope # 0
           /\ C22_EnvelopeLen(sub'[p]) > sub'[p].maxEnvelope) =>
            sessionStorage' = sessionStorage
C22_EnvelopeGuard == [](C22_GuardState) /\ [][C22_GuardStep]_vars
\* an oversized envelope was rejected while the pending record of an earlier
\* submission was in the store
C22_Witness ==
    \E p \in Procs :
        /\ sub[p].pc = "done"
        /\ sub[p].maxEnvelope # 0
        /\ C22_EnvelopeLen(sub[p]) > sub[p].maxEnvelope
        /\ sessionStorage[DEFAULT_STORAGE_KEY] # NoRecord
        /\ sessionStorage[DEFAULT_STORAGE_KEY].id # sub[p].id


\* C23: the detector has two states, nothing cached and a record cached. A
\* call of checkCryptoCapability(false) with a record cached returns that
\* record, runs no probe and leaves the cache as it is; a call with force =
\* true, or with nothing cached (at the start, or after
\* resetCryptoCapabilityCache), runs one probe, caches its record and returns it.
C23_CheckStep ==
    (unit'.seq # unit.seq /\ unit'.op = "checkCryptoCapability") =>
        IF cachedCapability # NoCapability /\ ~unit'.force
        THEN /\ ~unit'.probed
             /\ unit'.probes = unit.probes
             /\ unit'.returned = cachedCapability
             /\ cachedCapability' = cachedCapability
        ELSE /\ unit'.probed
             /\ unit'.probes = unit.probes + 1
             /\ unit'.returned \in {ProbeCapability(w, k) : w \in BOOLEAN, k \in BOOLEAN}
             /\ cachedCapability' = unit'.returned
C23_TwoStateDetector == [][C23_CheckStep]_vars
\* a forced check ran the third probe and its record is the one cached
C23_Witness ==
    /\ unit.op = "checkCryptoCapability"
    /\ unit.force
    /\ unit.probed
    /\ unit.probes = 3
    /\ cachedCapability = unit.returned
    /\ cachedCapability.available


\* C24: a submission with attemptHybrid = false that passes the size guard goes
\* to the classical seal: tryHybridEncryptLazy is never called, pqcUsed is
\* false and no DowngradeEvent is emitted; the strong-suite module is loaded
\* only by a step of a submission that attempts the strong suite, and the
\* capability check records no strong-suite probe of its own.
C24_ClassicalOnlyState ==
    \A p \in Procs :
        LET s == sub[p] IN
        (s.available = "yes" /\ ~s.attemptHybrid) =>
            /\ s.hybrid = "none"
            /\ ~s.pqcUsed
            /\ s.downgrades = 0
            /\ (PlaintextLen(s) <= s.maxPlaintext) => s.classical # "none"
            /\ s.encrypted.suite \in {"none", "x25519"}
C24_LoadStep ==
    /\ pqcModule' # pqcModule =>
           \E p \in Procs : sub[p].pc = "hybrid" /\ sub[p].attemptHybrid
    /\ \A p \in Procs :
           (sub[p].pc = "capability" /\ sub'[p].pc # "capability") =>
               cachedCapability'.kyber = cachedCapability.kyber
C25_PromotedState ==
    \A p \in Procs :
        sub[p].hybrid = "ok" => (cachedCapability # NoCapability /\ cachedCapability.kyber)
C25_PromotionStep ==
    /\ \A p \in Procs :
           /\ (sub[p].pc = "hybrid" /\ sub'[p].hybrid = "ok" /\ cachedCapability.kyber) =>
                  cachedCapability' = cachedCapability
           /\ (sub[p].pc = "hybrid" /\ sub'[p].hybrid = "failed") =>
                  cachedCapability' = cachedCapability
    /\ (cachedCapability.kyber /\ cachedCapability' # NoCapability) => cachedCapability'.kyber
C25_OneWayUpgrade == [](C25_PromotedState) /\ [][C25_PromotionStep]_vars
\* after one submission promoted the flag, the strong seal of a later one
\* failed and the flag is still true
C25_Witness ==
    \E p \in Procs :
        /\ sub[p].hybrid = "failed"
        /\ cachedCapability # NoCapability
        /\ cachedCapability.kyber
        /\ cachedCapability.error = ""


\* C26: every envelope encryptX25519Only returns carries the suite tag x25519,
\* a non-empty classical wrap nonce, wrapped key, content nonce and ciphertext,
\* and the fields kyberKemCt, kyberWrap.nonce and kyberWrap.wrapped, each
\* present and equal to the empty string.
C26_ClassicalEnvelopeShape ==
    \A p \in Procs :
        sub[p].classical = "ok" =>
            LET e == sub[p].encrypted IN
            /\ e.suite = "x25519"
            /\ Len(e.x25519Epk) = 64
            /\ e.x25519Wrap.nonce # "" /\ e.x25519Wrap.wrapped # ""
            /\ e.contentNonce # "" /\ e.ciphertext # ""
            /\ {"kyberKemCt", "kyberWrap"} \subseteq DOMAIN e
            /\ DOMAIN e.kyberWrap = {"nonce", "wrapped"}
            /\ e.kyberKemCt = ""
            /\ e.kyberWrap.nonce = "" /\ e.kyberWrap.wrapped = ""
\* a classical envelope sealed after a failed strong seal was sent
C26_Witness ==
    \E p \in Procs :
        /\ sub[p].classical = "ok"
        /\ sub[p].hybrid = "failed"
        /\ sub[p].fetches = 1
        /\ sub[p].envelope.encrypted = sub[p].encrypted
        /\ sub[p].encrypted.kyberKemCt = ""


\* C28: generateRequestId is a deterministic pure function of the canonical payload:
\* every identifier it returns is a string of 64 lowercase hexadecimal digits, and a
\* call on a canonical value equal to that of the call before returns the same
\* identifier, whatever the time of either call.
C28_IdState ==
    unit.op = "generateId" =>
        /\ Len(unit.requestId) = 64
        /\ \A i \in 1..Len(unit.requestId) :
             unit.requestId[i] \in {"0", "1", "2", "3", "4", "5", "6", "7", "8", "9",
                                    "a", "b", "c", "d", "e", "f"}
C28_IdStep ==
    (unit.op = "generateId" /\ unit'.op = "generateId"
       /\ unit'.canonicalized = unit.canonicalized)
      => unit'.requestId = unit.requestId
RECURSIVE C29_Lines(_, _, _)
C29_Lines(s, i, line) ==
    IF i > Len(s) THEN <<line>>
    ELSE IF s[i] = "\r" /\ i < Len(s) /\ s[i + 1] = "\n" THEN <<line>> \o C29_Lines(s, i + 2, <<>>)
    ELSE IF s[i] = "\r" \/ s[i] = "\n" THEN <<line>> \o C29_Lines(s, i + 1, <<>>)
    ELSE C29_Lines(s, i + 1, Append(line, s[i]))
C29_SameLetter(a, b) ==
    \/ a = b
    \/ \E i \in 1..26 :
         LET upper == <<"A", "B", "C", "D", "E", "F", "G", "H", "I", "J", "K", "L", "M",
                        "N", "O", "P", "Q", "R", "S", "T", "U", "V", "W", "X", "Y", "Z">>
             lower == <<"a", "b", "c", "d", "e", "f", "g", "h", "i", "j", "k", "l", "m",
                        "n", "o", "p", "q", "r", "s", "t", "u", "v", "w", "x", "y", "z">>
         IN  {a, b} = {upper[i], lower[i]}
\* e is white space, then the characters lo..hi, then white space
C29_Padded(e, lo, hi) ==
    /\ lo <= hi + 1
    /\ \A k \in 1..Len(e) : (k < lo \/ k > hi) => e[k] \in {" ", "\t", "\n", "\r"}
C29_SameEmail(e1, e2) ==
    \E lo1 \in 1..(Len(e1) + 1), hi1 \in 0..Len(e1), lo2 \in 1..(Len(e2) + 1), hi2 \in 0..Len(e2) :
        /\ C29_Padded(e1, lo1, hi1)
        /\ C29_Padded(e2, lo2, hi2)
        /\ hi1 - lo1 = hi2 - lo2
        /\ \A k \in 0..(hi1 - lo1) : C29_SameLetter(e1[lo1 + k], e2[lo2 + k])
C29_Count(arr, item) == Cardinality({i \in DOMAIN arr : arr[i] = item})
C29_Reordered(a1, a2) ==
    /\ Len(a1) = Len(a2)
    /\ \A i \in DOMAIN a1 : C29_Count(a1, a1[i]) = C29_Count(a2, a1[i])
C29_SameForm(d1, d2) ==
    /\ C29_SameEmail(d1.email, d2.email)
    /\ C29_Lines(d1.system, 1, <<>>) = C29_Lines(d2.system, 1, <<>>)
    /\ C29_Reordered(d1.compliance, d2.compliance)
    /\ d1.company = d2.company
    /\ d1.useCase = d2.useCase
    /\ d1.timeline = d2.timeline
C29_FormStep ==
    (unit.op = "generateId" /\ unit'.op = "generateId" /\ unit'.kind = unit.kind
       /\ C29_SameForm(unit.data, unit'.data))
      => unit'.requestId = unit.requestId
C29_FormattingInsensitive == [][C29_FormStep]_vars

\* the chaotic variant of a form has got the identifier of the tidy one
C29_Witness ==
    LET tidy == [email |-> <<"a", "@", "B">>, company |-> <<" ", "A", "c">>,
                 system |-> <<"a", "\n", "b", "\n", "c">>, useCase |-> <<"a", "i">>,
                 timeline |-> <<"q", "2">>, compliance |-> <<Soc2, Gdpr, Hipaa>>]
    IN  /\ unit.op = "generateId"
        /\ unit.data = [tidy EXCEPT !.email = <<" ", "A", "@", "b", "\t">>,
                                    !.system = <<"a", "\r", "\n", "b", "\r", "c">>,
                                    !.compliance = <<Hipaa, Soc2, Gdpr>>]
        /\ unit.again # "no"
        /\ unit.requestId = generateRequestIdHex(canonicalizePilotAccessPayload(tidy, unit.kind))


\* C30: classifyDowngradeReason gives every failure message exactly one of the five
\* reasons, the one of the first group of hints the message mentions in the order
\* content-security/WASM, load/module/import, unavailability, encryption, and unknown
\* when it mentions none; a message that mentions several groups gets the earliest.
\* msg mentions word: word occurs in it, letters compared without regard to case
C30_Mentions(msg, word) ==
    \E start \in 0..(Len(msg) - Len(word)) :
        \A k \in 1..Len(word) : C29_SameLetter(msg[start + k], word[k])
C30_Groups ==
    << {<<"c", "s", "p">>, <<"w", "a", "s", "m">>,
        <<"w", "e", "b", "a", "s", "s", "e", "m", "b", "l", "y">>},
       {<<"f", "a", "i", "l", "e", "d", " ", "t", "o", " ", "l", "o", "a", "d">>,
        <<"m", "o", "d", "u", "l", "e">>, <<"i", "m", "p", "o", "r", "t">>},
       {<<"u", "n", "a", "v", "a", "i", "l", "a", "b", "l", "e">>,
        <<"n", "o", "t", " ", "a", "v", "a", "i", "l", "a", "b", "l", "e">>},
       {<<"e", "n", "c", "r", "y", "p", "t">>} >>
C30_Reasons == <<"wasm_blocked", "module_load_failed", "kyber_unavailable", "encrypt_failed">>
C30_Matches(msg, g) == \E word \in C30_Groups[g] : C30_Mentions(msg, word)
C30_FirstMatchWins ==
    unit.op = "classifyDowngradeReason" =>
        /\ unit.reason \in {C30_Reasons[g] : g \in 1..4} \cup {"unknown"}
        /\ \A g \in 1..4 :
             (C30_Matches(unit.msg, g) /\ \A earlier \in 1..(g - 1) : ~C30_Matches(unit.msg, earlier))
               => unit.reason = C30_Reasons[g]
        /\ (\A g \in 1..4 : ~C30_Matches(unit.msg, g)) => unit.reason = "unknown"

\* the message of the failed module load mentions all four groups and is classified
\* by the first
C30_Witness ==
    /\ unit.op = "classifyDowngradeReason"
    /\ unit.msg = MsgHybridUnavailable
    /\ \A g \in 1..4 : C30_Matches(unit.msg, g)
    /\ unit.reason = "wasm_blocked"

----------------------------------------------------------------------------
(* Downgrades under every setting of debugDowngrade, with seal errors of two kinds *)

DowngradeInputs ==
    [AllInputs EXCEPT !.payloads = {"a@b.c"}, !.ttls = {Undefined},
                      !.sealErrors = SealErrors,
                      !.debugDowngrade = {"true", "false", "undefined"}]

NextDowngrade ==
    \/ \E p \in SeqProcs : AllIdle /\ BeginWith(p, {DEFAULT_STORAGE_KEY},
                                               {NoQuota.limit}, FALSE, DowngradeInputs)
    \/ \E p \in SeqProcs : StepWith(p, DowngradeInputs)
    \/ Tick

SpecDowngrade == Init /\ [][NextDowngrade]_vars

----------------------------------------------------------------------------
(* C31: what a DowngradeEvent carries *)

C31_Codes == {"wasm_blocked", "module_load_failed", "kyber_unavailable", "encrypt_failed",
              "unknown"}

\* the one event a reason code stands for when debugDowngrade is not set
C31_EventOf(reason) ==
    [fields |-> {"event", "reason", "suite", "pqcUsed", "requireKyber", "userAgent", "cspHint"},
     event |-> "omnituum.crypto.downgrade", reason |-> reason, suite |-> "x25519",
     pqcUsed |-> FALSE, requireKyber |-> FALSE, userAgent |-> "navigator.userAgent",
     cspHint |-> IF reason = "wasm_blocked"
                 THEN "WASM compilation likely blocked by Content-Security-Policy"
                 ELSE "undefined",
     rawError |-> <<>>]

\* C31: the DowngradeEvent handed to onDowngrade has one of the five reason codes, the
\* code its raw message classifies to; without debugDowngrade it has no rawError
\* property and is the event its reason code alone determines (so two failures with
\* different messages of one classification give identical events); it has a rawError
\* property, the raw message, exactly when debugDowngrade is true
C31_NoRawErrorUnlessDebug ==
    \A p \in Procs :
        LET s == sub[p]
            e == s.downgradeEvent
        IN  e # NoEvent =>
              /\ e.reason \in C31_Codes
              /\ e.reason = classifyDowngradeReason(s.rawMsg)
              /\ ("rawError" \in e.fields) <=> s.debugDowngrade
              /\ ~s.debugDowngrade => e = C31_EventOf(e.reason)
              /\ s.debugDowngrade => e.rawError = s.rawMsg

\* a downgrade without debugDowngrade after a seal error that is not the module's
\* own message and classifies as that one does
C31_Witness ==
    \E p \in Procs :
        /\ sub[p].downgradeEvent # NoEvent
        /\ ~sub[p].debugDowngrade
        /\ sub[p].rawMsg # MsgHybridUnavailable
        /\ sub[p].rawMsg # <<>>
        /\ sub[p].downgradeEvent.reason = classifyDowngradeReason(MsgHybridUnavailable)

----------------------------------------------------------------------------
(* C32: raw error text in what a submission lets out *)

\* the messages of what the classical seal and the response parser throw
C32_InternalErrors == {MsgInvalidKey, MsgBadJson}

\* C32: when debugDowngrade is not set, the error of the SubmitResult is not the raw
\* message of an internal error, and the DowngradeEvent has no raw message
C32_RawTextWithheld ==
    \A p \in Procs :
        LET s == sub[p] IN
        ~s.debugDowngrade =>
            /\ (s.pc = "done" /\ ~s.result.ok) => s.result.error \notin C32_InternalErrors
            /\ s.downgradeEvent # NoEvent =>
                  "rawError" \notin s.downgradeEvent.fields /\ s.downgradeEvent.rawError = <<>>

----------------------------------------------------------------------------
(* C33: a classical seal that fails on a malformed recipient key *)

C33_State ==
    \A p \in Procs :
        LET s == sub[p] IN
        s.classical = "failed" =>
            /\ s.pc \in {"classical", "done"}
            /\ s.hybrid \in {"none", "failed"}
            /\ s.encrypted = NoEnvelope
            /\ s.envelope = NoOuter
            /\ s.pendingSets = 0
            /\ s.fetches = 0
            /\ s.pc = "done" => s.result = Failure(MsgInvalidKey)

C33_Step ==
    \A p \in Procs :
        (sub[p].classical = "failed" /\ sub[p].pc = "classical" /\ sub'[p] # sub[p]) =>
            /\ sub'[p].pc = "done"
            /\ sessionStorage' = sessionStorage
            /\ submitTimestamps' = submitTimestamps

\* C33: a submission whose classical seal failed on a malformed recipient key, called
\* directly (attemptHybrid false) or after a failed strong seal, has built no envelope,
\* written no pending record and called no transport, and its next step returns the
\* failure, leaving the pending store and the rate limiter as they are
C33_ClassicalFailureIsImmediate == [](C33_State) /\ [][C33_Step]_vars

\* the failure has been returned on the downgrade path, the store holding no record
C33_Witness ==
    \E p \in Procs :
        /\ sub[p].pc = "done"
        /\ sub[p].classical = "failed"
        /\ sub[p].hybrid = "failed"
        /\ sub[p].downgrades = 1
        /\ sub[p].result = Failure(MsgInvalidKey)
        /\ sessionStorage[sub[p].storageKey] = NoRecord

----------------------------------------------------------------------------
(* Overlapping submissions: a host that calls submitSecureIntake again before the
   first call has returned. Each action is one synchronous run of one submission,
   from one suspension point (await) to the next *)

OverlapLimit == [disabled |-> FALSE, max |-> 1, windowMs |-> 30000]

OverlapInputs ==
    [AllInputs EXCEPT !.payloads = {"a@b.c", "x@y.cc"}, !.honeypots = {""},
                      !.canonicalizeThrows = {FALSE}, !.ttls = {Undefined},
                      !.storageOk = {TRUE}, !.webCrypto = {TRUE},
                      !.requireKyber = {"false"}, !.attemptHybrid = {"false"},
                      !.maxPlaintext = {Undefined}, !.maxEnvelope = {Undefined},
                      !.keyOk = {TRUE}, !.statuses = {200, 400, 500},
                      !.badJson = {FALSE}]

InitOverlap == InitWith([NoQuota EXCEPT !.limit = OverlapLimit])

\* with attemptHybrid false no submission reaches the strong seal
NextOverlap ==
    \/ \E p \in Procs : BeginWith(p, {DEFAULT_STORAGE_KEY}, {quota.limit}, TRUE, OverlapInputs)
    \/ \E p \in Procs : CapabilitySettled(p, NoWasmProbe, OverlapInputs)
    \/ \E p \in Procs : ClassicalSettled(p, OverlapInputs)
    \/ \E p \in Procs : FetchSettled(p, OverlapInputs)
    \/ \E p \in Procs : JsonSettled(p, OverlapInputs)
    \/ \E p \in Procs : ErrorJsonSettled(p, OverlapInputs)
    \/ \E p \in Procs : Return(p)
    \/ Tick

SpecOverlap == InitOverlap /\ [][NextOverlap]_vars

----------------------------------------------------------------------------
(* C34: what can happen between a submission's read and its write of a shared resource *)

\* past the rate-limit check and the pending read, not yet returned
C34_InFlight(p) == sub[p].pc \notin {"idle", "done"}

C34_Admitted(p) == C34_InFlight(p) /\ sub[p].admission = "admitted" /\ ~sub[p].isRetry

\* C34 as stated: no step of another submission occurs between a submission's
\* rate-limit check and its recordSubmit, or between its pending read and its pending
\* write (so no two submissions are in flight together), and two overlapping non-retry
\* submissions are never both admitted when only one slot remains
C34_Original ==
    \A p, q \in Procs :
        p # q =>
          /\ ~(C34_InFlight(p) /\ C34_InFlight(q))
          /\ ~(/\ C34_Admitted(p) /\ C34_Admitted(q)
               /\ InWindow(submitTimestamps, WindowMsOf(quota.limit)) = MaxOf(quota.limit) - 1)

\* the run that starts submission p
C34_Begins(p) == sub[p].pc = "idle" /\ sub'[p].pc # "idle" /\ sub'[p].admission # "none"

C34_Step ==
    /\ \* one run belongs to one submission
       \A p, q \in Procs : (p # q /\ sub'[p] # sub[p]) => sub'[q] = sub[q]
    /\ \* the pending read and the rate-limit check are made together, on the store and
       \* the timeline as they are at that moment
       \A p \in Procs :
          C34_Begins(p) =>
            LET s == sub'[p]
                stored == sessionStorage[s.storageKey]
                free == Len(PruneWindow(submitTimestamps, now - WindowMsOf(quota.limit)))
                          < MaxOf(quota.limit)
            IN  /\ s.isRetry <=> (stored.id = s.id /\ now - stored.ts <= DEFAULT_TTL_MS)
                /\ (s.admission = "admitted") <=> (s.isRetry \/ free)
    /\ \* recordSubmit and the pending write are single calls within later runs
       \A p \in Procs :
          /\ (sub'[p].recorded = sub[p].recorded + 1 /\ sub[p].pc # "idle") =>
                /\ sub[p].pc = "json"
                /\ submitTimestamps' = Append(submitTimestamps, now)
          /\ (sub'[p].pendingSets = sub[p].pendingSets + 1 /\ sub[p].pc # "idle") =>
                /\ sub[p].pc \in {"hybrid", "classical"}
                /\ sessionStorage'[sub[p].storageKey] = [id |-> sub[p].id, ts |-> now]

\* C34 (amended): each run of a submission, from one suspension point to the next,
\* belongs to that submission alone; the pending read and the rate-limit check are
\* made together in the first run, against the store and the timeline of that moment,
\* and recordSubmit and the pending write are single calls in later runs. Runs of
\* another submission can come in between, and two overlapping non-retry submissions
\* can both be admitted when only one slot remains
C34_RunsAreAtomic == [][C34_Step]_vars

\* two non-retry submissions at the transport, both admitted by a limit of one per
\* window with nothing recorded yet
C34_Witness ==
    \E p, q \in Procs :
        /\ p # q
        /\ sub[p].pc = "fetch" /\ sub[q].pc = "fetch"
        /\ C34_Admitted(p) /\ C34_Admitted(q)
        /\ MaxOf(quota.limit) = 1
        /\ submitTimestamps = <<>>

----------------------------------------------------------------------------
(* Termination: one caller, every awaited collaborator settles in the end *)

LiveLimit == [disabled |-> FALSE, max |-> 1, windowMs |-> 30000]

LiveInputs ==
    [AllInputs EXCEPT !.payloads = {"a@b.c"}, !.ttls = {Undefined}, !.storageOk = {TRUE},
                      !.requireKyber = {"true", "false"},
                      !.attemptHybrid = {"true", "false"},
                      !.maxPlaintext = {Undefined}, !.maxEnvelope = {Undefined, 300},
                      !.statuses = {200, 400, 500}]

NextLive ==
    \/ \E p \in SeqProcs : AllIdle /\ BeginWith(p, {DEFAULT_STORAGE_KEY}, {LiveLimit},
                                               FALSE, LiveInputs)
    \/ \E p \in SeqProcs : StepWith(p, LiveInputs)
    \/ Tick

\* the promise a submission awaits (capability check, seal, fetch, response body) is
\* settled in the end, and the caller takes the result; the host need not submit
\* again and the clock need not advance
SpecLive == Init /\ [][NextLive]_vars /\ \A p \in SeqProcs : WF_vars(StepWith(p, LiveInputs))

----------------------------------------------------------------------------
(* C35: termination *)

C35_Running(p) == sub[p].pc \notin {"idle", "done"}

C35_State ==
    \A p \in Procs :
        /\ C35_Running(p) => sub[p].result = NoResult
        /\ sub[p].pc = "done" => sub[p].result # NoResult

C35_Step ==
    \A p \in Procs :
        /\ \* a returned result is taken as it is
           (sub[p].pc = "done" /\ sub'[p] # sub[p]) => sub'[p] = IdleSub
        /\ \* a submission at the transport call moves only when that call settles:
           \* with a status, or with a rejection that ends the submission
           (sub[p].pc = "fetch" /\ sub'[p] # sub[p]) =>
               /\ sub'[p].outcome \in {"status", "thrown"}
               /\ sub'[p].pc \in {"json", "errjson", "done"}
        /\ \* the passing of time moves no submission
           now' # now => sub' = sub

\* C35: when every collaborator a submission awaits settles in the end, a submission
\* that has started returns in the end; it returns one SubmitResult, which is taken
\* unchanged; a submission waiting for the transport call continues only when that
\* call settles, however much time passes
C35_Terminates ==
    /\ \A p \in SeqProcs : [](C35_Running(p) => <>(sub[p].pc = "done"))
    /\ [](C35_State)
    /\ [][C35_Step]_vars

\* a submission that went all the way through the transport and the response body
\* has returned its result
C35_Witness ==
    \E p \in SeqProcs :
        /\ sub[p].pc = "done"
        /\ sub[p].fetches = 1
        /\ sub[p].outcome = "status"
        /\ sub[p].result # NoResult
        /\ now > 0

----------------------------------------------------------------------------
(* C36: strict mode and the envelopes that reach the transport *)

\* C36: when requireKyber is true, every envelope handed to fetch was produced by the
\* hybrid seal and says pqcUsed = true, whatever the other options are
C36_StrictEnvelopesAreHybrid ==
    \A p \in Procs :
        LET s == sub[p] IN
        (s.requireKyber /\ s.fetches > 0) =>
            /\ s.hybrid = "ok"
            /\ s.envelope.pqcUsed
            /\ s.envelope.encrypted.suite = HYBRID_SUITE

----------------------------------------------------------------------------
(* C37: the pqcUsed flag and the envelope it accompanies *)

C37_LongSuiteEmpty(encrypted) ==
    /\ encrypted.kyberKemCt = ""
    /\ encrypted.kyberWrap = [nonce |-> "", wrapped |-> ""]

\* C37: in every outer object handed to fetch, pqcUsed is true exactly when the
\* enclosed envelope is the one the hybrid seal returned, and false exactly when it
\* is the one of the classical seal, whose kyber fields are empty
C37_FlagMatchesEnvelope ==
    \A p \in Procs :
        LET s == sub[p]
            e == s.envelope
        IN  s.fetches > 0 =>
              /\ e.pqcUsed <=> (s.hybrid = "ok" /\ s.classical = "none")
              /\ e.pqcUsed <=> (e.encrypted.suite = HYBRID_SUITE)
              /\ e.pqcUsed <=> ~C37_LongSuiteEmpty(e.encrypted)
              /\ ~e.pqcUsed <=> (s.classical = "ok" /\ s.hybrid \in {"none", "failed"})
              /\ ~e.pqcUsed <=> (e.encrypted.suite = X25519_ONLY_SUITE)

\* a classical envelope at the transport after the strong seal failed with its module
\* loaded
C37_Witness ==
    \E p \in Procs :
        /\ sub[p].pc = "fetch"
        /\ sub[p].hybrid = "failed"
        /\ pqcModule
        /\ ~sub[p].envelope.pqcUsed
        /\ sub[p].envelope.encrypted = encryptX25519Only(PlaintextLen(sub[p]))

----------------------------------------------------------------------------
(* C38: one identifier and one canonical value per submission *)

\* generateRequestId(config.canonicalize(payload)) of submission p
C38_Id(p) == generateRequestId(canonicalize(sub[p].payload))

C38_State ==
    \A p \in Procs :
        LET s == sub[p] IN
        /\ (s.canonicalized = 1 /\ s.result # Failure(MsgCanonicalize)) => s.id = C38_Id(p)
        /\ s.isRetry => s.id = C38_Id(p)
        /\ s.fetches > 0 =>
              /\ s.envelope.id = C38_Id(p)
              /\ s.envelope.encrypted.ciphertext =
                    b64(SecretboxLen(Len(JSONstringify(canonicalize(s.payload)))))

C38_Step ==
    \A p \in Procs :
        /\ \* the comparison with the pending store
           (sub[p].pc = "idle" /\ sub'[p].isRetry) =>
               sessionStorage[sub'[p].storageKey].id =
                   generateRequestId(canonicalize(sub'[p].payload))
        /\ \* the pending write
           (sub'[p].pendingSets = sub[p].pendingSets + 1 /\ sub'[p].pendingStored) =>
               sessionStorage'[sub[p].storageKey] = [id |-> C38_Id(p), ts |-> now]

\* C38: the identifier a submission compares with the pending store, the one it writes
\* to the pending store and the id of the object it transmits are all
\* generateRequestId(canonicalize(payload)), and the plaintext it seals is the
\* serialization of that canonical value
C38_OneIdentifier == [](C38_State) /\ [][C38_Step]_vars

\* a retry at the transport whose payload differs from its canonical value: the
\* stored record, the local id and the transmitted id agree
C38_Witness ==
    \E p \in Procs :
        /\ sub[p].pc = "fetch"
        /\ sub[p].payload # canonicalize(sub[p].payload)
        /\ sub[p].isRetry
        /\ sub[p].pendingStored
        /\ sessionStorage[sub[p].storageKey].id = sub[p].envelope.id
        /\ sub[p].envelope.id = sub[p].id

----------------------------------------------------------------------------
(* Every source of an exception inside submitSecureIntake, the capability check included *)

ThrowInputs ==
    [AllInputs EXCEPT !.payloads = {" A@B.c "}, !.ttls = {Undefined},
                      !.capabilityThrows = BOOLEAN]

NextThrows ==
    \/ \E p \in SeqProcs : AllIdle /\ BeginWith(p, {DEFAULT_STORAGE_KEY}, {NoQuota.limit},
                                               FALSE, ThrowInputs)
    \/ \E p \in SeqProcs : StepWith(p, ThrowInputs)
    \/ Tick

SpecThrows == Init /\ [][NextThrows]_vars

----------------------------------------------------------------------------
(* C39: exceptions inside submitSecureIntake *)

\* an exception was raised before the pending write: by the canonicalizer, the
\* capability check, the onDowngrade callback or the classical seal
C39_ThrewEarly(s) ==
    \/ s.canonicalized = 1 /\ s.id = ""
    \/ s.available = "threw"
    \/ s.callbackThrew
    \/ s.classical = "failed"

\* ... or after it: by the transport or the response parser
C39_ThrewLate(s) == s.outcome \in {"thrown", "badjson"}

C39_Messages ==
    {MsgCanonicalize, MsgCapabilityThrew, MsgCallback, MsgInvalidKey, MsgBadJson}
      \cup TransportErrors

C39_State ==
    \A p \in Procs :
        LET s == sub[p] IN
        /\ s.pc = "done" => s.result # NoResult
        /\ (C39_ThrewEarly(s) /\ s.pc = "done") =>
              /\ s.result = Failure(s.result.error)
              /\ s.result.error \in C39_Messages
              /\ s.pendingSets = 0
              /\ s.fetches = 0
              /\ s.recorded = 0
        /\ C39_ThrewLate(s) =>
              /\ s.pc = "done"
              /\ s.result = Failure(s.result.error)
              /\ s.result.error \in C39_Messages

C39_Step ==
    \A p \in Procs :
        /\ \* the run in which an early exception is raised writes nothing
           (~C39_ThrewEarly(sub[p]) /\ C39_ThrewEarly(sub'[p]) /\ sub[p].pc # "idle") =>
               sessionStorage' = sessionStorage /\ submitTimestamps' = submitTimestamps
        /\ \* and the run that returns its failure does not either
           (C39_ThrewEarly(sub[p]) /\ sub[p].pc = "classical") =>
               /\ sessionStorage' = sessionStorage
               /\ sub'[p] = sub[p] \/ sub'[p].pc = "done"

\* C39: every exception raised inside submitSecureIntake (by the canonicalizer, the
\* capability check, a seal, the onDowngrade callback, the transport or the response
\* parser) ends the submission with a SubmitResult {ok: false, error}, never with a
\* rejection; when it is raised before the pending write, no pending record has been
\* written and fetch has not been called
C39_NeverRejects == [](C39_State) /\ [][C39_Step]_vars

\* the onDowngrade callback threw: the failure is returned, nothing stored or sent
C39_Witness ==
    \E p \in Procs :
        /\ sub[p].pc = "done"
        /\ sub[p].callbackThrew
        /\ sub[p].result = Failure(MsgCallback)
        /\ sub[p].pendingSets = 0
        /\ sub[p].fetches = 0
        /\ sessionStorage[sub[p].storageKey] = NoRecord

----------------------------------------------------------------------------
(* C40: the pending clear when two submissions overlap at the transport *)

\* submission p ended in a 5xx answer or a transport failure after it had stored its
\* pending record
C40_EndedRetryable(p) ==
    /\ sub[p].pc = "done"
    /\ sub[p].pendingStored
    /\ \/ sub[p].outcome = "thrown"
       \/ sub[p].outcome = "status" /\ sub[p].status >= 500

\* the run in which submission p calls clearPendingSubmission
C40_Clears(p) == sub'[p].clears = sub[p].clears + 1 /\ sub[p].pc # "idle"

C40_OriginalStep ==
    \A p \in Procs :
        (C40_Clears(p) /\ sessionStorage[sub[p].storageKey] # NoRecord) =>
            sessionStorage[sub[p].storageKey].id = sub[p].id

C40_OriginalState ==
    \A p \in Procs :
        C40_EndedRetryable(p) => sessionStorage[sub[p].storageKey].id = sub[p].id

\* C40 as stated: the clear at a submission's terminal outcome removes only a record
\* holding that submission's own identifier, never the record of another submission,
\* so a submission that ended in a 5xx answer or a transport failure finds its
\* identifier pending
C40_Original == [](C40_OriginalState) /\ [][C40_OriginalStep]_vars

C40_Step ==
    \A p \in Procs :
        /\ \* the clear removes the record under the key, whose ever it is
           C40_Clears(p) =>
               /\ sub'[p].outcome = "status" /\ sub'[p].status < 500
               /\ sessionStorage' =
                     IF sub'[p].cleared
                     THEN [sessionStorage EXCEPT ![sub[p].storageKey] = NoRecord]
                     ELSE sessionStorage      \* removeItem threw
        /\ \* the run in which a submission learns of a 5xx answer or a transport failure,
           \* and the one that returns it, leave the store alone
           (sub[p].pc \in {"fetch", "errjson"} /\ sub'[p] # sub[p]
              /\ (sub'[p].outcome = "thrown" \/ sub'[p].status >= 500)) =>
               sessionStorage' = sessionStorage
        /\ \* a record changes only in a run of some submission
           sessionStorage' # sessionStorage => \E q \in Procs : sub'[q] # sub[q]

\* C40 (amended): the clear at a submission's terminal outcome (2xx or 4xx) removes
\* whatever record is stored under the key, whichever submission wrote it (nothing
\* when the storage refuses the removal); a
\* submission that ends in a 5xx answer or a transport failure does not touch the
\* store itself, so its identifier is still pending afterwards unless a run of
\* another submission on the same key has overwritten or removed the record
C40_ClearRemovesWhateverIsStored == [][C40_Step]_vars

\* a submission has ended in a 5xx answer after storing its record, and the record is
\* gone: the other submission, with another identifier, has cleared it
C40_Witness ==
    \E p, q \in Procs :
        /\ p # q
        /\ C40_EndedRetryable(p)
        /\ sub[p].status >= 500
        /\ sub[q].cleared
        /\ sub[q].id # sub[p].id
        /\ sessionStorage[sub[p].storageKey] = NoRecord

====
